---- MODULE Spec2Model ----
(***************************************************************************)
(* A model of the BLisp pipeline of interprete-rs: the abstract type       *)
(* coercion, the recursive-descent parser, the literal resolution, the     *)
(* add builtin, list typing and the variable environment (State).          *)
(*                                                                         *)
(* Results of fallible functions are records with a field kind:            *)
(*   "Ok"    the function returned Ok(..),                                 *)
(*   "Err"   the function returned Err(..) (msg holds the message),        *)
(*   "Panic" the function aborted (panic!, unimplemented!, failed assert,  *)
(*           index out of range).                                          *)
(***************************************************************************)
EXTENDS Integers, Sequences, FiniteSets, TLC

VARIABLES
    first, second, coerced,        \* inputs and result of coerce_types
    tokens, parsed,                \* input and result of parse_prog
    vars, held, last,              \* State.vars, what the calls so far should have stored, the last call
    literal, converted,            \* input and result of Value::try_from(NumLiteral)
    args, sum,                     \* input and result of eval_add
    list_node, list_value,         \* input and result of eval_list_node
    pieces, lexed, prog, result,   \* a program text and the results of tokenize, parse_prog, eval
    call_node, call_state,         \* a FuncCall node and the State it is evaluated in
    call_args, required,           \* its evaluated arguments, the kinds its operator requires
    call_value,                    \* the result of eval_func_call_node
    bf_input, bf_reader,           \* a Brainfuck program text and the bytes its reader holds
    self,                          \* the BrainfuckProgram built from them, as interpret_naive runs it
    reduced, outcome,              \* math_reduction of the text, the run of the text
    outcome_reduced,               \* and the run of its reduction
    type_seq, folded,              \* the types of a list's elements and their fold by coerce_types
    scan_input, curr_index,        \* the characters tokenize scans, its cursor,
    scan_res,                      \* and the tokens pushed (or the error returned)
    overflow_checks                \* whether the build panics on integer overflow

coerceVars == <<first, second, coerced>>

parseVars == <<tokens, parsed>>

stateVars == <<vars, held, last>>

literalVars == <<literal, converted>>

addVars == <<args, sum>>

listVars == <<list_node, list_value>>

pipeVars == <<pieces, lexed, prog, result>>

callVars == <<call_node, call_state, call_args, required, call_value>>

bfVars == <<bf_input, bf_reader, self, reduced, outcome, outcome_reduced>>

foldVars == <<type_seq, folded>>

scanVars == <<scan_input, curr_index, scan_res>>

allvars ==
    <<coerceVars, parseVars, stateVars, literalVars, addVars, listVars, pipeVars,
      callVars, bfVars, foldVars, scanVars, overflow_checks>>

\* The value of a result variable before its function was applied.
NotRun == [kind |-> "NotRun"]

Ok(v) == [kind |-> "Ok", val |-> v]

Err(m) == [kind |-> "Err", msg |-> m]

Panic(m) == [kind |-> "Panic", msg |-> m]

-----------------------------------------------------------------------------
(* lexer.rs: Type.  A type is a tuple whose head names the variant.        *)

MaxTypeDepth == 1

BaseTypes == {<<"Int">>, <<"UInt">>, <<"Float">>, <<"Unit">>, <<"Char">>, <<"Bool">>}

ListOf(t) == <<"List", t>>

TupleOf(a, b) == <<"Tuple", a, b>>

RECURSIVE TypesUpTo(_)
TypesUpTo(d) ==
    IF d = 0
    THEN BaseTypes \cup {TupleOf(a, b) : a \in BaseTypes, b \in BaseTypes}
    ELSE LET S == TypesUpTo(d - 1) IN S \cup {ListOf(t) : t \in S}

Types == TypesUpTo(MaxTypeDepth)

IsListType(t) == t[1] = "List"

(* interpreter.rs: AbstractType.                                           *)
Number == <<"Number">>

NegNumber == <<"NegNumber">>

AbsList == <<"List">>

ConcreteType(t) == <<"ConcreteType", t>>

IsConcrete(a) == a[1] = "ConcreteType"

AbstractTypes == {Number, NegNumber, AbsList} \cup {ConcreteType(t) : t \in Types}

\* A coerce_types that lets Number win over NegNumber when NegNumber comes first.
coerce_types_number_wins(a, b) ==
    IF a = NegNumber /\ b = Number THEN Ok(b)
    ELSE IF a = AbsList
    THEN IF (IsConcrete(b) /\ IsListType(b[2])) \/ b = AbsList
         THEN Ok(b) ELSE Err(<<"Unable to coerce list into", a>>)
    ELSE IF a = Number
    THEN IF b \in {Number, NegNumber, ConcreteType(<<"Int">>),
                   ConcreteType(<<"UInt">>), ConcreteType(<<"Float">>)}
         THEN Ok(b) ELSE Err(<<"Unable to coerce Number into", a>>)
    ELSE IF a = NegNumber
    THEN IF b \in {NegNumber, ConcreteType(<<"Int">>), ConcreteType(<<"Float">>)}
         THEN Ok(b) ELSE Err(<<"Unable to coerce NegNumber into", a>>)
    ELSE IF IsConcrete(b)
    THEN IF a[2] = b[2] THEN Ok(b) ELSE Err(<<"Unable to coerce", a[2], "into", b[2]>>)
    ELSE IF b = Number
    THEN IF a[2] \in {<<"Int">>, <<"UInt">>, <<"Float">>}
         THEN Ok(a) ELSE Err(<<"Unable to coerce Number into", b>>)
    ELSE IF b = NegNumber
    THEN IF a[2] \in {<<"Int">>, <<"Float">>}
         THEN Ok(a) ELSE Err(<<"Unable to coerce NegNumber into", b>>)
    ELSE IF IsListType(a[2]) THEN Ok(a) ELSE Err(<<"Unable to coerce List into", b>>)

\* AbstractType::coerce_types: the match on first, then on second.
coerce_types(a, b) ==
    IF a = AbsList
    THEN IF (IsConcrete(b) /\ IsListType(b[2])) \/ b = AbsList
         THEN Ok(b) ELSE Err(<<"Unable to coerce list into", a>>)
    ELSE IF a = Number
    THEN IF b \in {Number, NegNumber, ConcreteType(<<"Int">>),
                   ConcreteType(<<"UInt">>), ConcreteType(<<"Float">>)}
         THEN Ok(b) ELSE Err(<<"Unable to coerce Number into", a>>)
    ELSE IF a = NegNumber
    THEN IF b \in {NegNumber, ConcreteType(<<"Int">>), ConcreteType(<<"Float">>)}
         THEN Ok(b)
         ELSE IF b = Number THEN Ok(a)
         ELSE Err(<<"Unable to coerce NegNumber into", a>>)
    ELSE IF IsConcrete(b)
    THEN IF a[2] = b[2] THEN Ok(b) ELSE Err(<<"Unable to coerce", a[2], "into", b[2]>>)
    ELSE IF b = Number
    THEN IF a[2] \in {<<"Int">>, <<"UInt">>, <<"Float">>}
         THEN Ok(a) ELSE Err(<<"Unable to coerce Number into", b>>)
    ELSE IF b = NegNumber
    THEN IF a[2] \in {<<"Int">>, <<"Float">>}
         THEN Ok(a) ELSE Err(<<"Unable to coerce NegNumber into", b>>)
    ELSE IF IsListType(a[2]) THEN Ok(a) ELSE Err(<<"Unable to coerce List into", b>>)

-----------------------------------------------------------------------------
(* interpreter.rs: Value and ValueData.  A payload is a tuple whose head   *)
(* names the ValueData variant.                                            *)

Value(ty, val) == [ty |-> ty, val |-> val]

-----------------------------------------------------------------------------
(* interpreter.rs: State, a HashMap<String, Option<Value>>.  A key that is *)
(* not in the map is Absent; a key mapped to None is Unset.                *)

\* An identifier is the sequence of its characters.
Idents == {<<"x">>, <<"y">>}

StoredValues == {Value(Number, <<"Number", 1>>), Value(ConcreteType(<<"Unit">>), <<"Unit">>)}

Absent == [st |-> "Absent"]

Unset == [st |-> "Unset"]

Set(v) == [st |-> "Set", v |-> v]

\* Option<Value>: None or Some(v).
OptValues == {Unset} \cup {Set(v) : v \in StoredValues}

\* State::new
State_new == [i \in Idents |-> Absent]

NotInitialized == "Variable has not been initialized at all"

NotSet == "Variable has been initialized but not set"

\* A get_var that reports a declared, unset variable as never declared.
get_var_one_error(m, ident) ==
    IF m[ident].st = "Set" THEN Ok(m[ident].v) ELSE Err(NotInitialized)

\* State::get_var
get_var(m, ident) ==
    IF ident \notin DOMAIN m \/ m[ident].st = "Absent" THEN Err(NotInitialized)
    ELSE IF m[ident].st = "Unset" THEN Err(NotSet)
    ELSE Ok(m[ident].v)

\* A create_var that overwrites an existing entry before reporting the error.
create_var_overwrites(m, ident, val) ==
    IF m[ident].st = "Absent"
    THEN [res |-> Ok(<<>>), vars |-> [m EXCEPT ![ident] = val]]
    ELSE [res |-> Err("Already have a variable called"), vars |-> [m EXCEPT ![ident] = val]]

\* State::create_var: the result and the map after the call.
create_var(m, ident, val) ==
    IF m[ident].st = "Absent"
    THEN [res |-> Ok(<<>>), vars |-> [m EXCEPT ![ident] = val]]
    ELSE [res |-> Err("Already have a variable called"), vars |-> m]

\* A set_var that gives the value to every declared variable.
set_var_sets_all(m, ident, val) ==
    IF m[ident].st # "Absent"
    THEN [res |-> Ok(<<>>),
          vars |-> [i \in DOMAIN m |-> IF m[i].st # "Absent" THEN Set(val) ELSE m[i]]]
    ELSE [res |-> Err("No variable exists with identifier"), vars |-> m]

\* A set_var that inserts the value when the entry is vacant.
set_var_inserts(m, ident, val) ==
    IF m[ident].st # "Absent"
    THEN [res |-> Ok(<<>>), vars |-> [m EXCEPT ![ident] = Set(val)]]
    ELSE [res |-> Err("No variable exists with identifier"),
          vars |-> [m EXCEPT ![ident] = Set(val)]]

\* State::set_var: the result and the map after the call.
set_var(m, ident, val) ==
    IF m[ident].st # "Absent"
    THEN [res |-> Ok(<<>>), vars |-> [m EXCEPT ![ident] = Set(val)]]
    ELSE [res |-> Err("No variable exists with identifier"), vars |-> m]

-----------------------------------------------------------------------------
(* lexer.rs: NumLiteral and Token.  A token is a tuple whose head names    *)
(* the variant.                                                            *)

NumLiteral(negative, int_part, float, dec_part, suffix) ==
    [negative |-> negative, int_part |-> int_part, float |-> float,
     dec_part |-> dec_part, suffix |-> suffix]

\* NumLiteral::new_int
new_int(int_part, negative) == NumLiteral(negative, int_part, FALSE, 0, "None")

LParen == <<"LParen">>

RParen == <<"RParen">>

LBrack == <<"LBrack">>

RBrack == <<"RBrack">>

EOF == <<"EOF">>

Reserved(r) == <<"Reserved", r>>

NumLiteralToken(lit) == <<"NumLiteral", lit>>

\* parser.rs: val_tokens_pat!()
IsValToken(t) ==
    t[1] \in {"LBrack", "LParen", "Ident", "Type", "CharLiteral", "StringLiteral",
              "NumLiteral", "UnitLiteral"}

\* parser.rs: val_tokens_pat!(terminals)
IsTerminalValToken(t) ==
    t[1] \in {"Ident", "Type", "CharLiteral", "StringLiteral", "NumLiteral", "UnitLiteral"}

-----------------------------------------------------------------------------
(* parser.rs: Node.  The parse functions take the token slice they were    *)
(* handed and return Ok([node, cnt]), cnt being the tokens consumed.       *)
(* Rust indexes from 0: tokens[i] is toks[i + 1], tokens.get(i) is None    *)
(* when i >= Len(toks), and &tokens[1..] is Tail(toks).                    *)

Leaf(tok) == [leaf |-> tok]

RuleNode(rule, children) == [rule |-> rule, children |-> children]

IsLeaf(node) == "leaf" \in DOMAIN node

Parsed(node, cnt) == Ok([node |-> node, cnt |-> cnt])

OutOfRange == Panic("index out of bounds")

\* let (child, cnt) = f(..)?; Ok((rule_node_helper!(rule, child), cnt))
wrap_child(rule, r) ==
    IF r.kind # "Ok" THEN r ELSE Parsed(RuleNode(rule, <<r.val.node>>), r.val.cnt)

RECURSIVE parse_expr(_), parse_expr_body(_), parse_func_call(_), parse_args(_),
          parse_val(_), parse_list(_), parse_list_body(_)

\* parse_expr and parse_list after the body b was parsed: the closing token.
parse_closing(toks, b, rule, open, close, what) ==
    IF b.kind # "Ok" THEN b
    ELSE IF b.val.cnt + 1 >= Len(toks) THEN OutOfRange
    ELSE IF toks[b.val.cnt + 2] = close
    THEN Parsed(RuleNode(rule, <<Leaf(open), b.val.node, Leaf(close)>>), b.val.cnt + 2)
    ELSE Err(<<what, toks[b.val.cnt + 2]>>)

parse_expr(toks) ==
    IF Len(toks) = 0 THEN OutOfRange
    ELSE IF toks[1] = LParen
    THEN parse_closing(toks, parse_expr_body(Tail(toks)), "Expr", LParen, RParen,
                       "Expected ) while parsing expression, encountered")
    ELSE Err(<<"Expected ( while parsing expression, encountered", toks[1]>>)

parse_expr_body(toks) ==
    IF Len(toks) = 0 THEN OutOfRange
    ELSE IF toks[1][1] = "Reserved" THEN wrap_child("ExprBody", parse_func_call(toks))
    ELSE IF IsValToken(toks[1]) THEN wrap_child("ExprBody", parse_val(toks))
    ELSE Err(<<"Unexpected token encountered while parsing expression body", toks[1]>>)

\* parse_func_call after the arguments a were parsed.
func_call_node(func, a) ==
    IF a.kind # "Ok" THEN a
    ELSE Parsed(RuleNode("FuncCall", <<Leaf(func), a.val.node>>), a.val.cnt + 1)

parse_func_call(toks) ==
    IF Len(toks) = 0 THEN OutOfRange
    ELSE IF toks[1][1] # "Reserved" THEN Err(<<"Assertion failed, self", toks[1]>>)
    ELSE func_call_node(toks[1], parse_args(Tail(toks)))

\* parse_args and parse_list_body after the tail t was parsed.
spine_node(rule, v, t) ==
    IF t.kind # "Ok" THEN t
    ELSE Parsed(RuleNode(rule, <<v.val.node, t.val.node>>), v.val.cnt + t.val.cnt)

\* parse_args after its first value v was parsed: the spine ends when the token
\* at val_cnt is ')', and otherwise the tail is parsed from &tokens[1..].
parse_args_after_val(toks, v) ==
    IF v.kind # "Ok" THEN v
    ELSE IF v.val.cnt >= Len(toks)
    THEN Err("Unexpectedly reached end of input while trying to parse arguments")
    ELSE IF toks[v.val.cnt + 1] = RParen
    THEN Parsed(RuleNode("Args", <<v.val.node>>), v.val.cnt)
    ELSE spine_node("Args", v, parse_args(Tail(toks)))

parse_args(toks) ==
    IF Len(toks) = 0 THEN OutOfRange
    ELSE IF IsValToken(toks[1]) THEN parse_args_after_val(toks, parse_val(toks))
    ELSE Err(<<"Unexpected token encountered while parsing expression body", toks[1]>>)

parse_val(toks) ==
    IF Len(toks) = 0 THEN OutOfRange
    ELSE IF toks[1] = LBrack THEN wrap_child("Val", parse_list(toks))
    ELSE IF toks[1] = LParen THEN wrap_child("Val", parse_expr(toks))
    ELSE IF IsTerminalValToken(toks[1]) THEN Parsed(RuleNode("Val", <<Leaf(toks[1])>>), 1)
    ELSE Err(<<"Unexpected token while parsing value", toks[1]>>)

parse_list(toks) ==
    IF Len(toks) = 0 THEN OutOfRange
    ELSE IF toks[1] = LBrack
    THEN parse_closing(toks, parse_list_body(Tail(toks)), "List", LBrack, RBrack,
                       "Expected ] while parsing list, encountered")
    ELSE Err(<<"Expected [ while parsing list, encountered", toks[1]>>)

\* parse_list_body after its first value v was parsed: the spine ends when the
\* token at val_cnt is ']', and otherwise the tail is parsed from &tokens[1..].
parse_list_body_after_val(toks, v) ==
    IF v.kind # "Ok" THEN v
    ELSE IF v.val.cnt >= Len(toks)
    THEN Err("Unexpectedly reached end of input while trying to parse list")
    ELSE IF toks[v.val.cnt + 1] = RBrack
    THEN Parsed(RuleNode("ListBody", <<v.val.node>>), v.val.cnt)
    ELSE spine_node("ListBody", v, parse_list_body(Tail(toks)))

parse_list_body(toks) ==
    IF Len(toks) = 0 THEN OutOfRange
    ELSE IF IsValToken(toks[1]) THEN parse_list_body_after_val(toks, parse_val(toks))
    ELSE Err(<<"Unexpected token encountered while parsing expression body", toks[1]>>)

\* parse_prog after the expression e was parsed: the EOF check.
parse_prog_eof(toks, e) ==
    IF e.kind # "Ok" THEN e
    ELSE IF e.val.cnt >= Len(toks) THEN Err("Unexpected end of token stream before EOF")
    ELSE IF toks[e.val.cnt + 1] # EOF
    THEN Err(<<"Unexpected token where EOF was expected", toks[e.val.cnt + 1]>>)
    ELSE Parsed(RuleNode("Prog", <<e.val.node>>), e.val.cnt)

parse_prog(toks) == parse_prog_eof(toks, parse_expr(toks))

(* interpreter.rs: eval_args_node and eval_list_body_node walk the spine   *)
(* of an Args or ListBody node: a node with one child ends it, a node with *)
(* two children holds a value and the rest of the spine.  The walk gives   *)
(* the Val nodes in the order their values are returned.                   *)
RECURSIVE spine(_)
spine(node) ==
    IF Len(node.children) = 1 THEN <<node.children[1]>>
    ELSE <<node.children[1]>> \o spine(node.children[2])

(* The token sequences tokenize can hand to parse_prog: any tokens, then   *)
(* one EOF (lexer.rs: tokenize pushes EOF last and nowhere else).          *)
MaxTokens == 7

TokenAlphabet ==
    {LParen, RParen, LBrack, RBrack, Reserved("Add"),
     NumLiteralToken(new_int(1, FALSE)), NumLiteralToken(new_int(2, FALSE))}

IsTokenStream(toks) ==
    \E n \in 0..MaxTokens : \E body \in [1..n -> TokenAlphabet] : toks = body \o <<EOF>>

-----------------------------------------------------------------------------
(* Machine integers.  u64 and i64 are modelled WordBits wide, so that the  *)
(* wrap-around of a cast and the overflow of an operation are reachable    *)
(* with the integers TLC has.  An overflowing operation panics in a build  *)
(* with overflow checks and wraps in a build without them.                 *)

WordBits == 9

RECURSIVE Pow2(_)
Pow2(n) == IF n = 0 THEN 1 ELSE 2 * Pow2(n - 1)

U64Max == Pow2(WordBits) - 1

I64Min == 0 - Pow2(WordBits - 1)

I64Max == Pow2(WordBits - 1) - 1

\* n as i64, for n: u64
as_i64(n) == IF n > I64Max THEN n - Pow2(WordBits) ELSE n

wrap_i64(x) == ((x - I64Min) % Pow2(WordBits)) + I64Min

\* -x, for x: i64
neg_i64(x, checks) ==
    IF x = I64Min
    THEN IF checks THEN Panic("attempt to negate with overflow") ELSE Ok(x)
    ELSE Ok(0 - x)

\* u64::add
add_u64(a, b, checks) ==
    IF a + b > U64Max
    THEN IF checks THEN Panic("attempt to add with overflow") ELSE Ok((a + b) % Pow2(WordBits))
    ELSE Ok(a + b)

\* i64::add
add_i64(a, b, checks) ==
    IF a + b > I64Max \/ a + b < I64Min
    THEN IF checks THEN Panic("attempt to add with overflow") ELSE Ok(wrap_i64(a + b))
    ELSE Ok(a + b)

(* An f64 is modelled as a whole number of tenths: 1.5 is 15.              *)
FloatScale == 10

\* n as f64, for n: u64 or i64
as_f64(n) == n * FloatScale

-----------------------------------------------------------------------------
(* interpreter.rs: the conversions into Value.                             *)

CharType == ConcreteType(<<"Char">>)

FloatType == ConcreteType(<<"Float">>)

UnitType == ConcreteType(<<"Unit">>)

\* impl From<u8> for Value
Value_from_u8(c) == Value(CharType, <<"Char", c>>)

\* impl From<f64> for Value
Value_from_f64(f) == Value(FloatType, <<"Float", f>>)

\* impl From<()> for Value
Value_from_unit == Value(UnitType, <<"Unit">>)

\* impl From<String> for Value: a string is the sequence of its bytes.
Value_from_String(str) ==
    Value(ConcreteType(ListOf(<<"Char">>)),
          <<"List", [k \in 1..Len(str) |-> Value_from_u8(str[k])]>>)

\* NumLiteral::to_f64_checked: the signed value of int_part.dec_part, for a
\* fraction of one digit.
to_f64_checked(lit) ==
    Ok((IF lit.negative THEN 0 - 1 ELSE 1) * (lit.int_part * FloatScale + lit.dec_part))

\* value.to_f64_checked()?.into()
float_value(f) == IF f.kind # "Ok" THEN f ELSE Ok(Value_from_f64(f.val))

\* Value::new(AbstractType::NegNumber, ValueData::NegNumber(-(int_part as i64)))
negnumber_value(n) == IF n.kind # "Ok" THEN n ELSE Ok(Value(NegNumber, <<"NegNumber", n.val>>))

\* impl TryFrom<NumLiteral> for Value
Value_try_from_NumLiteral(lit, checks) ==
    IF lit.suffix = "None"
    THEN IF lit.float THEN float_value(to_f64_checked(lit))
         ELSE IF lit.negative THEN negnumber_value(neg_i64(as_i64(lit.int_part), checks))
         ELSE Ok(Value(Number, <<"Number", lit.int_part>>))
    ELSE IF lit.suffix = "Char"
    THEN IF lit.float \/ lit.negative \/ lit.int_part > 255
         THEN Err(<<"Unable to process NumLiteral with Char suffix", lit>>)
         ELSE Ok(Value(CharType, <<"Char", lit.int_part % 256>>))
    ELSE IF lit.suffix = "Float" THEN float_value(to_f64_checked(lit))
    ELSE IF lit.float \/ lit.negative
         THEN Err(<<"Unable to process NumLiteral with Unsigned suffix", lit>>)
         ELSE Ok(Value(ConcreteType(<<"UInt">>), <<"UInt", lit.int_part>>))

Suffixes == {"None", "Unsigned", "Float", "Char"}

\* The fractions a literal of the model carries: one digit.
DecParts == {0, 5}

NumLiterals ==
    {NumLiteral(neg, i, fl, IF fl THEN d ELSE 0, sfx) :
        neg \in BOOLEAN, i \in 0..U64Max, fl \in BOOLEAN, d \in DecParts, sfx \in Suffixes}

-----------------------------------------------------------------------------
(* interpreter.rs: Argument and the accessors of Value.                    *)

ArgValue(v) == <<"Value", v>>

ArgType(t) == <<"Type", t>>

ArgIdent(i) == <<"Ident", i>>

\* Argument::try_get_val
try_get_val(arg) ==
    IF arg[1] = "Value" THEN Ok(arg[2])
    ELSE Err(<<"Attempted to get Value from non-Value argument", arg>>)

\* Argument::try_get_val_type
try_get_val_type(arg) ==
    IF arg[1] # "Value" THEN Err(<<"Attempted to get Value from non-Value argument", arg>>)
    ELSE IF arg[2].ty = AbsList
    THEN Err(<<"Unexpectedly found abstract list type when parsing argument", arg>>)
    ELSE Ok(arg[2].ty)

\* Value::try_as_number
try_as_number(v) ==
    IF v.val[1] = "Number" THEN Ok(v.val[2])
    ELSE Err(<<"Tried to convert non-number value to number", v>>)

\* Value::try_as_negnumber
try_as_negnumber(v) ==
    IF v.val[1] = "Number" THEN Ok(as_i64(v.val[2]))
    ELSE IF v.val[1] = "NegNumber" THEN Ok(v.val[2])
    ELSE Err(<<"Tried to convert invalid value to negnumber", v>>)

\* Value::try_as_int
try_as_int(v) ==
    IF v.val[1] = "Number" THEN Ok(as_i64(v.val[2]))
    ELSE IF v.val[1] \in {"NegNumber", "Int"} THEN Ok(v.val[2])
    ELSE Err(<<"Tried to convert invalid value to int", v>>)

\* Value::try_as_uint
try_as_uint(v) ==
    IF v.val[1] \in {"Number", "UInt"} THEN Ok(v.val[2])
    ELSE Err(<<"Tried to convert invalid value to uint", v>>)

\* Value::try_as_float
try_as_float(v) ==
    IF v.val[1] \in {"Number", "NegNumber"} THEN Ok(as_f64(v.val[2]))
    ELSE IF v.val[1] = "Float" THEN Ok(v.val[2])
    ELSE Err(<<"Tried to convert invalid value to float", v>>)

-----------------------------------------------------------------------------
(* functions.rs: eval_add.                                                 *)

\* result_value_helper!: the two conversions, then the native operation r(a, b),
\* wrapped as a value of type ty with payload variant tag.
result_value_helper(ty, tag, a, b, r) ==
    IF a.kind # "Ok" THEN a
    ELSE IF b.kind # "Ok" THEN b
    ELSE IF r.kind # "Ok" THEN r
    ELSE Ok(Value(ty, <<tag, r.val>>))

\* eval_add after the coercion: the dispatch on the coerced type.
eval_add_dispatch(ty, val1, val2, checks) ==
    IF ty = Number
    THEN result_value_helper(Number, "Number", try_as_number(val1), try_as_number(val2),
             add_u64(try_as_number(val1).val, try_as_number(val2).val, checks))
    ELSE IF ty = NegNumber
    THEN result_value_helper(NegNumber, "NegNumber",
             try_as_negnumber(val1), try_as_negnumber(val2),
             add_i64(try_as_negnumber(val1).val, try_as_negnumber(val2).val, checks))
    ELSE IF ty = AbsList
    THEN Err(<<"Unexpectedly encountered AbstractType::List in eval step", ty>>)
    ELSE IF ty[2] = <<"Int">>
    THEN result_value_helper(ty, "Int", try_as_int(val1), try_as_int(val2),
             add_i64(try_as_int(val1).val, try_as_int(val2).val, checks))
    ELSE IF ty[2] = <<"UInt">>
    THEN result_value_helper(ty, "UInt", try_as_uint(val1), try_as_uint(val2),
             add_u64(try_as_uint(val1).val, try_as_uint(val2).val, checks))
    ELSE IF ty[2] = <<"Float">>
    THEN result_value_helper(ty, "Float", try_as_float(val1), try_as_float(val2),
             Ok(try_as_float(val1).val + try_as_float(val2).val))
    ELSE IF ty[2] = <<"Unit">> THEN Ok(Value(UnitType, <<"Unit">>))
    ELSE IF IsListType(ty[2]) THEN Panic("not implemented")
    ELSE Err(<<"Unable to add values of type", ty[2]>>)

\* eval_add after the two pops: the types of both arguments, the coercion.
eval_add_coerce(arg1, arg2, t1, t2, checks) ==
    IF t1.kind # "Ok" THEN t1
    ELSE IF t2.kind # "Ok" THEN t2
    ELSE IF coerce_types(t1.val, t2.val).kind # "Ok" THEN coerce_types(t1.val, t2.val)
    ELSE eval_add_dispatch(coerce_types(t1.val, t2.val).val, arg1[2], arg2[2], checks)

\* eval_add: arg1 is the last argument (popped first), arg2 the one before it.
eval_add(a, checks) ==
    IF Len(a) # 2 THEN Panic("assertion failed: args.len() == 2")
    ELSE eval_add_coerce(a[2], a[1], try_get_val_type(a[2]), try_get_val_type(a[1]), checks)

\* The values handed to eval_add: of every payload variant, the extremes of the
\* integers included.
AddValues ==
    {Value(Number, <<"Number", n>>) : n \in {0, 1, I64Max + 1, U64Max}}
    \cup {Value(NegNumber, <<"NegNumber", n>>) : n \in {0 - 1, I64Min}}
    \cup {Value(ConcreteType(<<"Int">>), <<"Int", n>>) : n \in {0 - 2, 3, I64Max}}
    \cup {Value(ConcreteType(<<"UInt">>), <<"UInt", n>>) : n \in {2, U64Max}}
    \cup {Value_from_f64(15), Value_from_f64(0 - 25)}
    \cup {Value_from_unit, Value_from_u8(48), Value(ConcreteType(<<"Bool">>), <<"Bool", TRUE>>)}
    \cup {Value_from_String(<<97>>),
          Value(ConcreteType(ListOf(<<"Int">>)), <<"List", <<Value(Number, <<"Number", 1>>)>>>>),
          Value(ConcreteType(TupleOf(<<"Int">>, <<"Int">>)), <<"Unit">>)}

-----------------------------------------------------------------------------
(* interpreter.rs: evaluation of the parse tree.  The nodes are those the  *)
(* interpreter matches on: Expr, ExprBody, List and Val hold one child,    *)
(* FuncCall holds the function's name and an Args node, and an Args or     *)
(* ListBody node holds a Val and, unless it is the last, the rest.         *)

CharLiteralToken(c) == <<"CharLiteral", c>>

StringLiteralToken(str) == <<"StringLiteral", str>>

UnitLiteralToken == <<"UnitLiteral">>

IdentToken(i) == <<"Ident", i>>

IsRule(node, rule) == ~IsLeaf(node) /\ node.rule = rule

AssertLen(n) == Panic(<<"assertion failed: children.len() ==", n>>)

\* What get_arg_types holds for an operator its match has no arm for.
NoEntry == <<"NoEntry">>

\* functions.rs: get_arg_types.  The match has no arm for ReservedIdent::Split.
get_arg_types(func) ==
    IF func \in {"Add", "Sub", "Div", "Mul", "Eq", "Neq", "Leq", "Geq", "Lt", "Gt", "And",
                 "Concat", "While", "Or", "Take", "Prepend"}
    THEN <<"Value", "Value">>
    ELSE IF func \in {"Write", "Read", "Eval", "ToString"} THEN <<"Value">>
    ELSE IF func \in {"Set", "Def"} THEN <<"Ident", "Value">>
    ELSE IF func = "Init" THEN <<"Ident", "Type">>
    ELSE IF func = "If" THEN <<"Value", "Value", "Value">>
    ELSE NoEntry

\* Argument::get_type
get_type(arg) == arg[1]

\* args.iter().map(Argument::get_type).collect::<Vec<_>>()
arg_kinds(a) == [k \in 1..Len(a) |-> get_type(a[k])]

\* functions.rs: eval_function
eval_function(func, a, checks) ==
    IF arg_kinds(a) # get_arg_types(func)
    THEN Panic("assertion failed: left == right")
    ELSE IF func = "Add" THEN eval_add(a, checks)
    ELSE Panic("not implemented")

\* eval_func_call_node, once the arguments are evaluated
call_function(func, a, checks) ==
    IF a.kind # "Ok" THEN a ELSE eval_function(func, a.val, checks)

\* Ok([eval_val_node(node, state)?.into()].to_vec())
args_of_val(r) == IF r.kind # "Ok" THEN r ELSE Ok(<<ArgValue(r.val)>>)

\* let mut res = vec![val.into()]; res.append(&mut tail); Ok(res), the tail
\* having been evaluated before the value.
args_prepend(tail, r) ==
    IF tail.kind # "Ok" THEN tail
    ELSE IF r.kind # "Ok" THEN r
    ELSE Ok(<<ArgValue(r.val)>> \o tail.val)

\* list_value_helper![v]: a list value holding v.
list_value_helper(vals) == Value(AbsList, <<"List", vals>>)

\* Ok(list_value_helper![eval_val_node(node, state)?])
list_of_val(r) == IF r.kind # "Ok" THEN r ELSE Ok(list_value_helper(<<r.val>>))

\* let mut res = vec![val]; res.append(&mut vec);
\* Ok(Value::new(AbstractType::List, ValueData::List(res)))
list_prepend(tail, r) ==
    IF tail.kind # "Ok" THEN tail
    ELSE IF r.kind # "Ok" THEN r
    ELSE IF tail.val.val[1] # "List" THEN Err(<<"Malformed ListBody result", tail.val>>)
    ELSE Ok(Value(AbsList, <<"List", <<r.val>> \o tail.val.val[2]>>))

\* A fold step that keeps the accumulator when the coercion succeeds.
coerce_step_keeps_first(acc, ty) ==
    IF acc.kind # "Ok" THEN acc
    ELSE IF coerce_types(acc.val, ty).kind = "Ok" THEN acc
    ELSE coerce_types(acc.val, ty)

\* AbstractType::coerce_types as the step of a try_fold
coerce_step(acc, ty) == IF acc.kind # "Ok" THEN acc ELSE coerce_types(acc.val, ty)

\* tys.try_fold(init, AbstractType::coerce_types), from the k-th type on
RECURSIVE try_fold_types(_, _, _)
try_fold_types(acc, tys, k) ==
    IF k > Len(tys) \/ acc.kind # "Ok" THEN acc
    ELSE try_fold_types(coerce_step(acc, tys[k]), tys, k + 1)

\* check_list_type: the fold over the sublists of a list of lists, each mapped
\* to the type init found for the first of them.
RECURSIVE sublist_fold(_, _, _, _)
sublist_fold(acc, vec, k, init) ==
    IF k > Len(vec) \/ acc.kind # "Ok" THEN acc
    ELSE IF vec[k].val[1] # "List"
    THEN Panic("Something went wrong when parsing sublist types")
    ELSE sublist_fold(coerce_step(acc, ConcreteType(init)), vec, k + 1, init)

\* check_list_type: the end of the AbstractType::List arm
sublist_type(ty) ==
    IF ty.kind # "Ok" THEN ty
    ELSE IF IsConcrete(ty.val) THEN Ok(ty.val[2])
    ELSE Err(<<"Unable to find a concrete type for the list, found type", ty.val>>)

\* check_list_type: the AbstractType::List arm, init being the type of the
\* first sublist
check_sublists(vec, init) ==
    IF init.kind # "Ok" THEN init
    ELSE sublist_type(sublist_fold(Ok(ConcreteType(init.val)), vec, 1, init.val))

RECURSIVE check_list_type(_)

\* check_list_type: the match on the folded type
check_list_type_match(vec, ty) ==
    IF ty.kind # "Ok" THEN ty
    ELSE IF ty.val \in {Number, NegNumber} THEN Ok(<<"Int">>)
    ELSE IF IsConcrete(ty.val) THEN Ok(ty.val[2])
    ELSE IF vec[1].val[1] # "List"
    THEN Err(<<"Got List as type of the list but initial value is not a list", vec[1]>>)
    ELSE check_sublists(vec, check_list_type(vec[1].val[2]))

\* check_list_type
check_list_type(vec) ==
    IF Len(vec) = 0 THEN OutOfRange
    ELSE check_list_type_match(vec,
             try_fold_types(Ok(vec[1].ty), [k \in 1..Len(vec) |-> vec[k].ty], 1))

\* An eval_list_node that types every list as a list of Int, whatever
\* check_list_type found.
typed_list_as_int(vals, ty) == Ok(Value(ConcreteType(ListOf(<<"Int">>)), <<"List", vals>>))

\* eval_list_node, once the body is evaluated
typed_list(vals, ty) ==
    IF ty.kind # "Ok" THEN ty
    ELSE Ok(Value(ConcreteType(ListOf(ty.val)), <<"List", vals>>))

\* eval_list_node: the list value of the body, typed by check_list_type
list_of_body(r) ==
    IF r.kind # "Ok" THEN r
    ELSE IF r.val.val[1] # "List" THEN Err("Malformed ListBody result")
    ELSE typed_list(r.val.val[2], check_list_type(r.val.val[2]))

RECURSIVE eval_expr_node(_, _, _), eval_expr_body_node(_, _, _), eval_val_node(_, _, _),
          eval_func_call_node(_, _, _), eval_args_node(_, _, _),
          eval_list_node(_, _, _), eval_list_body_node(_, _, _)

eval_expr_node(node, m, checks) ==
    IF ~IsRule(node, "Expr") THEN Err(<<"Expected Expr node, found", node>>)
    ELSE IF Len(node.children) # 1 THEN AssertLen(1)
    ELSE eval_expr_body_node(node.children[1], m, checks)

eval_expr_body_node(node, m, checks) ==
    IF ~IsRule(node, "ExprBody") THEN Err(<<"Expected ExprBody node, found", node>>)
    ELSE IF Len(node.children) # 1 THEN AssertLen(1)
    ELSE IF IsRule(node.children[1], "Val") THEN eval_val_node(node.children[1], m, checks)
    ELSE IF IsRule(node.children[1], "FuncCall")
    THEN eval_func_call_node(node.children[1], m, checks)
    ELSE Err(<<"Encountered unexpected node when evaluating expression body",
               node.children[1]>>)

\* eval_val_node: the match on the child
eval_val_child(c, m, checks) ==
    IF IsLeaf(c) /\ c.leaf[1] = "CharLiteral" THEN Ok(Value_from_u8(c.leaf[2]))
    ELSE IF IsLeaf(c) /\ c.leaf[1] = "StringLiteral" THEN Ok(Value_from_String(c.leaf[2]))
    ELSE IF IsLeaf(c) /\ c.leaf[1] = "NumLiteral"
    THEN Value_try_from_NumLiteral(c.leaf[2], checks)
    ELSE IF IsLeaf(c) /\ c.leaf[1] = "UnitLiteral" THEN Ok(Value_from_unit)
    ELSE IF IsLeaf(c) /\ c.leaf[1] = "Ident" THEN get_var(m, c.leaf[2])
    ELSE IF IsRule(c, "List") THEN eval_list_node(c, m, checks)
    ELSE IF IsRule(c, "Expr") THEN eval_expr_node(c, m, checks)
    ELSE Err(<<"Encountered invalid node when evaluating Val", c>>)

eval_val_node(node, m, checks) ==
    IF ~IsRule(node, "Val") THEN Err(<<"Expected Val node, found", node>>)
    ELSE IF Len(node.children) # 1 THEN AssertLen(1)
    ELSE eval_val_child(node.children[1], m, checks)

eval_func_call_node(node, m, checks) ==
    IF ~IsRule(node, "FuncCall") THEN Err(<<"Expected FuncCall node, found", node>>)
    ELSE IF Len(node.children) # 2 THEN AssertLen(2)
    ELSE IF IsLeaf(node.children[1]) /\ node.children[1].leaf[1] = "Reserved"
    THEN call_function(node.children[1].leaf[2],
                       eval_args_node(node.children[2], m, checks), checks)
    ELSE Err(<<"Expected function name, found", node.children[1]>>)

eval_args_node(node, m, checks) ==
    IF ~IsRule(node, "Args") THEN Err(<<"Expected ListBody node, found", node>>)
    ELSE IF Len(node.children) = 1
    THEN IF IsRule(node.children[1], "Val")
         THEN args_of_val(eval_val_node(node.children[1], m, checks))
         ELSE Err(<<"Expected Val while parsing ListBody, found", node.children[1]>>)
    ELSE IF Len(node.children) # 2 THEN AssertLen(2)
    ELSE args_prepend(eval_args_node(node.children[2], m, checks),
                      eval_val_node(node.children[1], m, checks))

eval_list_node(node, m, checks) ==
    IF ~IsRule(node, "List") THEN Err(<<"Expected Args node, found", node>>)
    ELSE IF Len(node.children) # 1 THEN AssertLen(1)
    ELSE list_of_body(eval_list_body_node(node.children[1], m, checks))

eval_list_body_node(node, m, checks) ==
    IF ~IsRule(node, "ListBody") THEN Err(<<"Expected ListBody node, found", node>>)
    ELSE IF Len(node.children) = 1
    THEN IF IsRule(node.children[1], "Val")
         THEN list_of_val(eval_val_node(node.children[1], m, checks))
         ELSE Err(<<"Expected Val while parsing ListBody, found", node.children[1]>>)
    ELSE IF Len(node.children) # 2 THEN AssertLen(2)
    ELSE list_prepend(eval_list_body_node(node.children[2], m, checks),
                      eval_val_node(node.children[1], m, checks))

\* macros.rs: val_node_helper!(tok)
val_node_helper(tok) == RuleNode("Val", <<Leaf(tok)>>)

\* macros.rs: val_node_helper!([node])
val_node_of(node) == RuleNode("Val", <<node>>)

\* macros.rs: list_node_helper! and func_call_node_helper! build the spine from
\* its last item backwards.
RECURSIVE spine_helper(_, _)
spine_helper(rule, items) ==
    IF Len(items) = 1 THEN RuleNode(rule, <<items[1]>>)
    ELSE RuleNode(rule, <<items[1], spine_helper(rule, Tail(items))>>)

\* macros.rs: list_node_helper![items]
list_node_helper(items) == RuleNode("List", <<spine_helper("ListBody", items)>>)

\* macros.rs: func_call_node_helper!(func, [items])
func_call_node_helper(func, items) ==
    RuleNode("FuncCall", <<Leaf(Reserved(func)), spine_helper("Args", items)>>)

\* An expression node around a function call or a value.
expr_node_of(node) == RuleNode("Expr", <<RuleNode("ExprBody", <<node>>)>>)

\* A list node of any number of items: one without items holds a ListBody
\* without children.
ListNodeOf(items) ==
    IF Len(items) = 0 THEN RuleNode("List", <<RuleNode("ListBody", <<>>)>>)
    ELSE list_node_helper(items)

MaxListLen == 3

NumVal(lit) == val_node_helper(NumLiteralToken(lit))

\* The items of the lists evaluated: numbers of every kind, a character, a
\* string, an undeclared identifier, lists and a sum.
ListItems ==
    {NumVal(new_int(1, FALSE)), NumVal(new_int(2, TRUE)),
     NumVal(NumLiteral(FALSE, 2, FALSE, 0, "Unsigned")),
     NumVal(NumLiteral(FALSE, 1, TRUE, 5, "None")),
     val_node_helper(CharLiteralToken(97)),
     val_node_helper(StringLiteralToken(<<98>>)),
     val_node_helper(IdentToken(<<"x">>)),
     val_node_of(list_node_helper(<<NumVal(new_int(1, FALSE))>>)),
     val_node_of(list_node_helper(<<val_node_helper(CharLiteralToken(97))>>)),
     val_node_of(expr_node_of(func_call_node_helper("Add",
         <<NumVal(new_int(1, FALSE)), NumVal(new_int(2, FALSE))>>)))}

-----------------------------------------------------------------------------
(* lexer.rs: the tokenizer.  A character is a string of one character, an  *)
(* input a sequence of characters.  Rust indexes from 0: input[i] is       *)
(* input[i + 1] here, and the index a loop stands at is one higher.        *)

\* The printable ASCII characters, from ' ' (32) to '~' (126); "grave" stands
\* for the grave accent (96).
Ascii ==
    <<
    " ", "!", "\"", "#", "$", "%", "&", "'", "(", ")", "*", "+",
    ",", "-", ".", "/", "0", "1", "2", "3", "4", "5", "6", "7",
    "8", "9", ":", ";", "<", "=", ">", "?", "@", "A", "B", "C",
    "D", "E", "F", "G", "H", "I", "J", "K", "L", "M", "N", "O",
    "P", "Q", "R", "S", "T", "U", "V", "W", "X", "Y", "Z", "[",
    "\\", "]", "^", "_", "grave", "a", "b", "c", "d", "e", "f", "g",
    "h", "i", "j", "k", "l", "m", "n", "o", "p", "q", "r", "s",
    "t", "u", "v", "w", "x", "y", "z", "{", "|", "}", "~"
    >>

AsciiChars == {Ascii[k] : k \in 1..Len(Ascii)}

\* A character outside ASCII.
NonAscii == "U+00E9"

\* c as u8
as_u8 == [c \in AsciiChars |-> 31 + CHOOSE k \in 1..Len(Ascii) : Ascii[k] = c]

\* char::is_ascii
is_ascii(c) == c \in AsciiChars

\* 'a'..='z' | 'A'..='Z'
IsLetter(c) == is_ascii(c) /\ (as_u8[c] \in 97..122 \/ as_u8[c] \in 65..90)

\* '0'..='9'
IsDigit(c) == is_ascii(c) /\ as_u8[c] \in 48..57

\* c.to_digit(10).unwrap()
to_digit(c) == as_u8[c] - 48

\* input.into_iter().filter(|c| c.is_ascii()).collect()
filter_ascii(input) == SelectSeq(input, is_ascii)

\* &input[i..], for the index i of Rust
SliceFrom(input, i) == SubSeq(input, i + 1, Len(input))

TypeToken(t) == <<"Type", t>>

\* impl TryFrom<&str> for ReservedIdent: the keywords
ReservedNames ==
    {
      <<<<"a", "d", "d">>, "Add">>,
      <<<<"s", "u", "b">>, "Sub">>,
      <<<<"d", "i", "v">>, "Div">>,
      <<<<"m", "u", "l">>, "Mul">>,
      <<<<"w", "r", "i", "t", "e">>, "Write">>,
      <<<<"r", "e", "a", "d">>, "Read">>,
      <<<<"i", "f">>, "If">>,
      <<<<"w", "h", "i", "l", "e">>, "While">>,
      <<<<"e", "q">>, "Eq">>,
      <<<<"n", "e", "q">>, "Neq">>,
      <<<<"l", "e", "q">>, "Leq">>,
      <<<<"g", "e", "q">>, "Geq">>,
      <<<<"l", "t">>, "Lt">>,
      <<<<"g", "t">>, "Gt">>,
      <<<<"a", "n", "d">>, "And">>,
      <<<<"o", "r">>, "Or">>,
      <<<<"s", "e", "t">>, "Set">>,
      <<<<"i", "n", "i", "t">>, "Init">>,
      <<<<"d", "e", "f">>, "Def">>,
      <<<<"c", "o", "n", "c", "a", "t">>, "Concat">>,
      <<<<"p", "r", "e", "p", "e", "n", "d">>, "Prepend">>,
      <<<<"t", "a", "k", "e">>, "Take">>,
      <<<<"s", "p", "l", "i", "t">>, "Split">>,
      <<<<"e", "v", "a", "l">>, "Eval">>,
      <<<<"t", "o", "s", "t", "r", "i", "n", "g">>, "ToString">>
    }

ReservedIdents == {e[2] : e \in ReservedNames}

\* impl TryFrom<&str> for ReservedIdent
ReservedIdent_try_from(value) ==
    IF \E e \in ReservedNames : e[1] = value
    THEN Ok((CHOOSE e \in ReservedNames : e[1] = value)[2])
    ELSE Err("Not a valid reserved identifier")

\* impl TryFrom<&str> for Type: the names matched literally
TypeNames ==
    {
      <<<<"i", "n", "t">>, <<"Int">>>>,
      <<<<"u", "i", "n", "t">>, <<"UInt">>>>,
      <<<<"f", "l", "o", "a", "t">>, <<"Float">>>>,
      <<<<"u", "n", "i", "t">>, <<"Unit">>>>,
      <<<<"c", "h", "a", "r">>, <<"Char">>>>,
      <<<<"b", "o", "o", "l">>, <<"Bool">>>>
    }

\* if let Ok(subtype) = Self::try_from(..) { Ok(List(subtype)) } else { Err(..) }
list_subtype(r) ==
    IF r.kind = "Ok" THEN Ok(ListOf(r.val))
    ELSE IF r.kind = "Panic" THEN r
    ELSE Err("Unable to parse subtype of list")

\* impl TryFrom<&str> for Type
RECURSIVE Type_try_from(_)
Type_try_from(value) ==
    IF \E c \in {value[k] : k \in 1..Len(value)} : ~is_ascii(c)
    THEN Err("Unable to convert non-ascii value to Type")
    ELSE IF \E e \in TypeNames : e[1] = value
    THEN Ok((CHOOSE e \in TypeNames : e[1] = value)[2])
    ELSE IF Len(value) >= 5 /\ SubSeq(value, 1, 5) = <<"l", "i", "s", "t", "<">> /\ value[Len(value)] = ">"
    THEN list_subtype(Type_try_from(SubSeq(value, 6, Len(value) - 1)))
    ELSE IF Len(value) > 6 /\ SubSeq(value, 1, 6) = <<"t", "u", "p", "l", "e", "<">>
            /\ value[Len(value)] = ">"
    THEN Panic("not implemented")
    ELSE Err("Invalid type: {value}")

\* handle_char_literal
handle_char_literal(input) ==
    IF Len(input) < 3
    THEN Err("Reached end of input unexpectedly while parsing a char literal")
    ELSE IF input[3] # "'" THEN Err("Did not find closing ' where expected")
    ELSE Ok(as_u8[input[2]])

\* handle_string_literal: the loop, curr_index being k - 1
RECURSIVE string_loop(_, _)
string_loop(input, k) ==
    IF k > Len(input)
    THEN Err("Unexpectedly reached end of input while parsing a string literal")
    ELSE IF input[k] = "\"" THEN Ok(SubSeq(input, 2, k - 1))
    ELSE string_loop(input, k + 1)

\* handle_string_literal
handle_string_literal(input) == string_loop(input, 2)

IsIdentChar(c) == IsLetter(c) \/ IsDigit(c) \/ c \in {"<", ">"}

\* handle_identifier: the loop; it returns the number of characters pushed, and
\* fails when it runs into the end of the input.
RECURSIVE ident_loop(_, _)
ident_loop(input, k) ==
    IF k > Len(input)
    THEN Err("Unexpectedly reached end of input while parsing an identifier")
    ELSE IF IsIdentChar(input[k]) THEN ident_loop(input, k + 1)
    ELSE Ok(k - 1)

\* Type::try_from(curr_ident.as_str())?, wrapped as a token
forced_type_token(ty, adj) ==
    IF ty.kind # "Ok" THEN ty ELSE Ok([tok |-> TypeToken(ty.val), adj |-> adj])

\* handle_identifier: the classification of the text read
classify_ident(curr_ident, ty, rsv) ==
    IF \E k \in 1..Len(curr_ident) : curr_ident[k] \in {"<", ">"}
    THEN forced_type_token(ty, Len(curr_ident) - 1)
    ELSE IF ty.kind = "Panic" THEN ty
    ELSE IF ty.kind = "Ok" THEN Ok([tok |-> TypeToken(ty.val), adj |-> Len(curr_ident) - 1])
    ELSE IF rsv.kind = "Ok" THEN Ok([tok |-> Reserved(rsv.val), adj |-> Len(curr_ident) - 1])
    ELSE Ok([tok |-> IdentToken(curr_ident), adj |-> Len(curr_ident) - 1])

\* handle_identifier, once the loop has ended
ident_of_run(input, n) ==
    IF n.kind # "Ok" THEN n
    ELSE classify_ident(SubSeq(input, 1, n.val),
                        Type_try_from(SubSeq(input, 1, n.val)),
                        ReservedIdent_try_from(SubSeq(input, 1, n.val)))

\* handle_identifier
handle_identifier(input) == ident_of_run(input, ident_loop(input, 1))

\* u64::mul
mul_u64(a, b, checks) ==
    IF a * b > U64Max
    THEN IF checks THEN Panic("attempt to multiply with overflow")
         ELSE Ok((a * b) % Pow2(WordBits))
    ELSE Ok(a * b)

\* x *= 10; x += digit
push_digit(x10, d, checks) == IF x10.kind # "Ok" THEN x10 ELSE add_u64(x10.val, d, checks)

\* handle_num_literal: the loop, curr_index being k - 1; int_part and dec_part
\* are results, so that an overflow ends the loop.
RECURSIVE num_loop(_, _, _, _, _, _, _)
num_loop(input, k, negative, int_part, dec_part, float, checks) ==
    IF int_part.kind # "Ok" THEN int_part
    ELSE IF dec_part.kind # "Ok" THEN dec_part
    ELSE IF k <= Len(input) /\ IsDigit(input[k])
    THEN IF float
         THEN num_loop(input, k + 1, negative, int_part,
                       push_digit(mul_u64(dec_part.val, 10, checks), to_digit(input[k]), checks),
                       float, checks)
         ELSE num_loop(input, k + 1, negative,
                       push_digit(mul_u64(int_part.val, 10, checks), to_digit(input[k]), checks),
                       dec_part, float, checks)
    ELSE IF k <= Len(input) /\ input[k] = "."
    THEN num_loop(input, k + 1, negative, int_part, dec_part, TRUE, checks)
    ELSE IF k <= Len(input) /\ input[k] \in {"u", "f", "c"}
    THEN Ok([lit |-> NumLiteral(negative, int_part.val, float, dec_part.val,
                        IF input[k] = "u" THEN "Unsigned"
                        ELSE IF input[k] = "f" THEN "Float" ELSE "Char"),
             count |-> k])
    ELSE Ok([lit |-> NumLiteral(negative, int_part.val, float, dec_part.val, "None"),
             count |-> k - 1])

\* handle_num_literal: from the first digit, which stands at index k
num_from(input, k, negative, checks) ==
    IF k > Len(input) THEN OutOfRange
    ELSE IF ~IsDigit(input[k])
    THEN Err(<<"Unexpected char while parsing number", input[k]>>)
    ELSE num_loop(input, k + 1, negative, Ok(to_digit(input[k])), Ok(0), FALSE, checks)

\* handle_num_literal
handle_num_literal(input, checks) ==
    IF Len(input) = 0 THEN OutOfRange
    ELSE IF input[1] = "-" THEN num_from(input, 2, TRUE, checks)
    ELSE num_from(input, 1, FALSE, checks)

\* The bytes of an ASCII string.
as_bytes(str) == [k \in 1..Len(str) |-> as_u8[str[k]]]

EndOfInput == Err("Unexpectedly reached end of input")

RECURSIVE tokenize_loop(_, _, _, _)

\* tokenize: the arm of a digit or of a '-' that starts a number
tokenize_num(input, i, res, r, checks) ==
    IF r.kind # "Ok" THEN r
    ELSE tokenize_loop(input, i + r.val.count, res \o <<NumLiteralToken(r.val.lit)>>, checks)

\* tokenize: the arm of '\''
tokenize_char(input, i, res, r, checks) ==
    IF r.kind # "Ok" THEN r
    ELSE tokenize_loop(input, i + 3, res \o <<CharLiteralToken(r.val)>>, checks)

\* tokenize: the arm of '"'
tokenize_string(input, i, res, r, checks) ==
    IF r.kind # "Ok" THEN r
    ELSE tokenize_loop(input, i + Len(r.val) + 2,
                       res \o <<StringLiteralToken(as_bytes(r.val))>>, checks)

\* tokenize: the arm of a letter
tokenize_ident(input, i, res, r, checks) ==
    IF r.kind # "Ok" THEN r
    ELSE tokenize_loop(input, i + r.val.adj + 1, res \o <<r.val.tok>>, checks)

\* tokenize: the loop, curr_index being i (the character read is input[i + 1])
tokenize_loop(input, i, res, checks) ==
    IF i >= Len(input) THEN Ok(res \o <<EOF>>)
    ELSE IF input[i + 1] = "+" THEN tokenize_loop(input, i + 1, res \o <<Reserved("Add")>>, checks)
    ELSE IF input[i + 1] = "/" THEN tokenize_loop(input, i + 1, res \o <<Reserved("Div")>>, checks)
    ELSE IF input[i + 1] = "*" THEN tokenize_loop(input, i + 1, res \o <<Reserved("Mul")>>, checks)
    ELSE IF input[i + 1] = "("
    THEN IF i + 1 >= Len(input) THEN EndOfInput
         ELSE IF input[i + 2] = ")"
         THEN tokenize_loop(input, i + 2, res \o <<UnitLiteralToken>>, checks)
         ELSE tokenize_loop(input, i + 1, res \o <<LParen>>, checks)
    ELSE IF input[i + 1] = ")" THEN tokenize_loop(input, i + 1, res \o <<RParen>>, checks)
    ELSE IF input[i + 1] = "[" THEN tokenize_loop(input, i + 1, res \o <<LBrack>>, checks)
    ELSE IF input[i + 1] = "]" THEN tokenize_loop(input, i + 1, res \o <<RBrack>>, checks)
    ELSE IF IsDigit(input[i + 1])
    THEN tokenize_num(input, i, res, handle_num_literal(SliceFrom(input, i), checks), checks)
    ELSE IF input[i + 1] = "'"
    THEN tokenize_char(input, i, res, handle_char_literal(SliceFrom(input, i)), checks)
    ELSE IF input[i + 1] = "\""
    THEN tokenize_string(input, i, res, handle_string_literal(SliceFrom(input, i)), checks)
    ELSE IF input[i + 1] = "-"
    THEN IF i + 1 >= Len(input) THEN EndOfInput
         ELSE IF input[i + 2] = " "
         THEN tokenize_loop(input, i + 1, res \o <<Reserved("Sub")>>, checks)
         ELSE tokenize_num(input, i, res, handle_num_literal(SliceFrom(input, i), checks),
                           checks)
    ELSE IF IsLetter(input[i + 1])
    THEN tokenize_ident(input, i, res, handle_identifier(SliceFrom(input, i)), checks)
    ELSE IF input[i + 1] = " " THEN tokenize_loop(input, i + 1, res, checks)
    ELSE Err(<<"Haven't implemented the char", input[i + 1]>>)

\* A tokenize that returns its tokens without the closing EOF.
tokenize_without_eof(input, checks) ==
    IF tokenize_loop(filter_ascii(input), 0, <<>>, checks).kind # "Ok"
    THEN tokenize_loop(filter_ascii(input), 0, <<>>, checks)
    ELSE Ok(SubSeq(tokenize_loop(filter_ascii(input), 0, <<>>, checks).val, 1,
                   Len(tokenize_loop(filter_ascii(input), 0, <<>>, checks).val) - 1))

\* tokenize
tokenize(input, checks) == tokenize_loop(filter_ascii(input), 0, <<>>, checks)

\* eval_prog_node
eval_prog_node(node, m, checks) ==
    IF ~IsRule(node, "Prog") THEN Err(<<"Expected Prog node, found", node>>)
    ELSE IF Len(node.children) # 1 THEN AssertLen(1)
    ELSE eval_expr_node(node.children[1], m, checks)

\* eval
eval(node, checks) == eval_prog_node(node, State_new, checks)

(* The tree the interpreter matches on holds no delimiters: an Expr or     *)
(* List node has its body as only child (macros.rs: prog_node_helper!,     *)
(* list_node_helper!), where parse_expr and parse_list of parser.rs keep   *)
(* the opening and the closing token as first and third child.             *)
RECURSIVE interpreter_tree(_)
interpreter_tree(node) ==
    IF IsLeaf(node) THEN node
    ELSE IF node.rule \in {"Expr", "List"} /\ Len(node.children) = 3
    THEN RuleNode(node.rule, <<interpreter_tree(node.children[2])>>)
    ELSE RuleNode(node.rule,
                  [k \in 1..Len(node.children) |-> interpreter_tree(node.children[k])])

\* The characters of a text given as a sequence of pieces.
RECURSIVE Flatten(_)
Flatten(ps) == IF Len(ps) = 0 THEN <<>> ELSE Head(ps) \o Flatten(Tail(ps))

MaxPieces == 4

\* The pieces the program texts are made of.
Pieces ==
    {
     <<"(">>,
     <<")">>,
     <<"[">>,
     <<"]">>,
     <<" ">>,
     <<"+">>,
     <<"-">>,
     <<"/">>,
     <<"*">>,
     <<"a", "d", "d">>,
     <<"s", "u", "b">>,
     <<"d", "i", "v">>,
     <<"m", "u", "l">>,
     <<"1">>,
     <<"9">>,
     <<"2", "u">>,
     <<"x">>,
     <<"i", "n", "t">>,
     <<"l", "i", "s", "t", "<", "i", "n", "t", ">">>,
     <<"t", "u", "p", "l", "e", "<", "i", "n", "t", ">">>,
     <<"x", "<">>,
     <<"\"", "a", "\"">>,
     <<"'", "a", "'">>,
     <<NonAscii>>
    }

MaxArgs == 3

\* The arguments of the calls evaluated: a number, an identifier, a type name.
CallItems ==
    {NumVal(new_int(1, FALSE)), val_node_helper(IdentToken(<<"x">>)),
     val_node_helper(TypeToken(<<"Int">>)), val_node_helper(UnitLiteralToken)}

\* The States the calls are evaluated in: x undeclared, x holding a number.
CallStates ==
    {State_new, [State_new EXCEPT ![<<"x">>] = Set(Value(Number, <<"Number", 3>>))]}

\* eval_func_call_node: what get_arg_types returns in the eval_function it
\* calls once the arguments are evaluated.
required_kinds(func, a) == IF a.kind # "Ok" THEN NotRun ELSE Ok(get_arg_types(func))

-----------------------------------------------------------------------------
(* Values of the variables a specification does not use.                   *)

CoerceIdle == first = Number /\ second = Number /\ coerced = NotRun

ParseIdle == tokens = <<>> /\ parsed = NotRun

StateIdle == vars = State_new /\ held = State_new /\ last = [op |-> "new"]

LiteralIdle == literal = new_int(0, FALSE) /\ converted = NotRun

AddIdle == args = <<>> /\ sum = NotRun

ListIdle == list_node = RuleNode("List", <<>>) /\ list_value = NotRun

PipeIdle == pieces = <<>> /\ lexed = NotRun /\ prog = NotRun /\ result = NotRun

BfIdle ==
    /\ bf_input = <<>> /\ bf_reader = <<>> /\ self = NotRun
    /\ reduced = NotRun /\ outcome = NotRun /\ outcome_reduced = NotRun

FoldIdle == type_seq = <<>> /\ folded = NotRun

ScanIdle == scan_input = <<>> /\ curr_index = 0 /\ scan_res = NotRun

CallIdle ==
    /\ call_node = RuleNode("FuncCall", <<>>) /\ call_state = State_new
    /\ call_args = NotRun /\ required = NotRun /\ call_value = NotRun

ChecksIdle == overflow_checks = FALSE

-----------------------------------------------------------------------------
(* The variable environment: any sequence of create_var, set_var, get_var. *)
(* held records, from the arguments of the calls alone, what the           *)
(* environment is required to hold: a creation of a fresh identifier       *)
(* stores its argument, an assignment to a declared identifier stores its  *)
(* value, and nothing else changes it.                                     *)

Declared == {i \in Idents : held[i].st # "Absent"}

CreateVar ==
    \E ident \in Idents, val \in OptValues :
        LET r == create_var(vars, ident, val) IN
        /\ vars' = r.vars
        /\ held' = IF ident \in Declared THEN held ELSE [held EXCEPT ![ident] = val]
        /\ last' = [op |-> "create_var", ident |-> ident, arg |-> val, res |-> r.res]
        /\ UNCHANGED <<listVars, pipeVars, callVars, bfVars, foldVars, scanVars, coerceVars, parseVars, literalVars, addVars, overflow_checks>>

SetVar ==
    \E ident \in Idents, val \in StoredValues :
        LET r == set_var(vars, ident, val) IN
        /\ vars' = r.vars
        /\ held' = IF ident \in Declared THEN [held EXCEPT ![ident] = Set(val)] ELSE held
        /\ last' = [op |-> "set_var", ident |-> ident, arg |-> Set(val), res |-> r.res]
        /\ UNCHANGED <<listVars, pipeVars, callVars, bfVars, foldVars, scanVars, coerceVars, parseVars, literalVars, addVars, overflow_checks>>

GetVar ==
    \E ident \in Idents :
        /\ last' = [op |-> "get_var", ident |-> ident, arg |-> Unset,
                    res |-> get_var(vars, ident)]
        /\ UNCHANGED <<listVars, pipeVars, callVars, bfVars, foldVars, scanVars, vars, held, coerceVars, parseVars, literalVars, addVars, overflow_checks>>

Init == StateIdle /\ CoerceIdle /\ ParseIdle /\ LiteralIdle /\ AddIdle /\ ListIdle /\ PipeIdle /\ CallIdle /\ BfIdle /\ FoldIdle /\ ScanIdle /\ ChecksIdle

Next == CreateVar \/ SetVar \/ GetVar

Spec == Init /\ [][Next]_allvars

-----------------------------------------------------------------------------
(* Coercion of a pair of abstract types.                                   *)

Coerce ==
    /\ coerced = NotRun
    /\ coerced' = coerce_types(first, second)
    /\ UNCHANGED <<listVars, pipeVars, callVars, bfVars, foldVars, scanVars, first, second, parseVars, stateVars, literalVars, addVars, overflow_checks>>

InitCoerce ==
    /\ first \in AbstractTypes
    /\ second \in AbstractTypes
    /\ coerced = NotRun
    /\ ParseIdle /\ StateIdle /\ LiteralIdle /\ AddIdle /\ ListIdle /\ PipeIdle /\ CallIdle /\ BfIdle /\ FoldIdle /\ ScanIdle /\ ChecksIdle

NextCoerce == Coerce

SpecCoerce == InitCoerce /\ [][NextCoerce]_allvars

-----------------------------------------------------------------------------
(* Parsing of a token stream.                                              *)

Parse ==
    /\ parsed = NotRun
    /\ parsed' = parse_prog(tokens)
    /\ UNCHANGED <<listVars, pipeVars, callVars, bfVars, foldVars, scanVars, tokens, coerceVars, stateVars, literalVars, addVars, overflow_checks>>

InitParse ==
    /\ IsTokenStream(tokens)
    /\ parsed = NotRun
    /\ CoerceIdle /\ StateIdle /\ LiteralIdle /\ AddIdle /\ ListIdle /\ PipeIdle /\ CallIdle /\ BfIdle /\ FoldIdle /\ ScanIdle /\ ChecksIdle

NextParse == Parse

SpecParse == InitParse /\ [][NextParse]_allvars

-----------------------------------------------------------------------------
(* Resolution of a numeric literal.                                        *)

Convert ==
    /\ converted = NotRun
    /\ converted' = Value_try_from_NumLiteral(literal, overflow_checks)
    /\ UNCHANGED <<listVars, pipeVars, callVars, bfVars, foldVars, scanVars, literal, overflow_checks, coerceVars, parseVars, stateVars, addVars>>

InitLiteral ==
    /\ literal \in NumLiterals
    /\ overflow_checks \in BOOLEAN
    /\ converted = NotRun
    /\ CoerceIdle /\ ParseIdle /\ StateIdle /\ AddIdle /\ ListIdle /\ PipeIdle /\ CallIdle /\ BfIdle /\ FoldIdle /\ ScanIdle

NextLiteral == Convert

SpecLiteral == InitLiteral /\ [][NextLiteral]_allvars

-----------------------------------------------------------------------------
(* Addition of two value arguments.                                        *)

Add ==
    /\ sum = NotRun
    /\ sum' = eval_add(args, overflow_checks)
    /\ UNCHANGED <<listVars, pipeVars, callVars, bfVars, foldVars, scanVars, args, overflow_checks, coerceVars, parseVars, stateVars, literalVars>>

InitAdd ==
    /\ \E a \in AddValues, b \in AddValues : args = <<ArgValue(a), ArgValue(b)>>
    /\ overflow_checks \in BOOLEAN
    /\ sum = NotRun
    /\ CoerceIdle /\ ParseIdle /\ StateIdle /\ LiteralIdle /\ ListIdle /\ PipeIdle /\ CallIdle /\ BfIdle /\ FoldIdle /\ ScanIdle

NextAdd == Add

SpecAdd == InitAdd /\ [][NextAdd]_allvars

-----------------------------------------------------------------------------
(* Evaluation of a list node, in the fresh State that eval creates.        *)

EvalList ==
    /\ list_value = NotRun
    /\ list_value' = eval_list_node(list_node, State_new, overflow_checks)
    /\ UNCHANGED <<list_node, overflow_checks, coerceVars, parseVars, stateVars,
                   literalVars, addVars, pipeVars, callVars, bfVars, foldVars, scanVars>>

InitList ==
    /\ \E n \in 0..MaxListLen : \E items \in [1..n -> ListItems] :
           list_node = ListNodeOf(items)
    /\ overflow_checks \in BOOLEAN
    /\ list_value = NotRun
    /\ CoerceIdle /\ ParseIdle /\ StateIdle /\ LiteralIdle /\ AddIdle /\ PipeIdle /\ CallIdle /\ BfIdle /\ FoldIdle /\ ScanIdle

NextList == EvalList

SpecList == InitList /\ [][NextList]_allvars

-----------------------------------------------------------------------------
(* The pipeline: a program text is tokenized, the tokens are parsed, the   *)
(* tree is evaluated; a stage runs when the stage before it returned Ok.   *)

Tokenize ==
    /\ lexed = NotRun
    /\ lexed' = tokenize(Flatten(pieces), overflow_checks)
    /\ UNCHANGED <<pieces, prog, result, overflow_checks, coerceVars, parseVars, stateVars,
                   literalVars, addVars, listVars, callVars, bfVars, foldVars, scanVars>>

ParseProg ==
    /\ lexed.kind = "Ok" /\ prog = NotRun
    /\ prog' = parse_prog(lexed.val)
    /\ UNCHANGED <<pieces, lexed, result, overflow_checks, coerceVars, parseVars, stateVars,
                   literalVars, addVars, listVars, callVars, bfVars, foldVars, scanVars>>

Eval ==
    /\ prog.kind = "Ok" /\ result = NotRun
    /\ result' = eval(interpreter_tree(prog.val.node), overflow_checks)
    /\ UNCHANGED <<pieces, lexed, prog, overflow_checks, coerceVars, parseVars, stateVars,
                   literalVars, addVars, listVars, callVars, bfVars, foldVars, scanVars>>

InitPipeline ==
    /\ \E n \in 0..MaxPieces : pieces \in [1..n -> Pieces]
    /\ overflow_checks \in BOOLEAN
    /\ lexed = NotRun /\ prog = NotRun /\ result = NotRun
    /\ CoerceIdle /\ ParseIdle /\ StateIdle /\ LiteralIdle /\ AddIdle /\ ListIdle /\ CallIdle /\ BfIdle /\ FoldIdle /\ ScanIdle

NextPipeline == Tokenize \/ ParseProg \/ Eval

SpecPipeline == InitPipeline /\ [][NextPipeline]_allvars

-----------------------------------------------------------------------------
(* Evaluation of a call of any operator on one to three arguments.         *)

EvalCall ==
    /\ call_value = NotRun
    /\ call_args' = eval_args_node(call_node.children[2], call_state, overflow_checks)
    /\ required' = required_kinds(call_node.children[1].leaf[2], call_args')
    /\ call_value' = eval_func_call_node(call_node, call_state, overflow_checks)
    /\ UNCHANGED <<call_node, call_state, overflow_checks, coerceVars, parseVars, stateVars,
                   literalVars, addVars, listVars, pipeVars, bfVars, foldVars, scanVars>>

InitCall ==
    /\ \E func \in ReservedIdents : \E n \in 1..MaxArgs : \E items \in [1..n -> CallItems] :
           call_node = func_call_node_helper(func, items)
    /\ call_state \in CallStates
    /\ overflow_checks \in BOOLEAN
    /\ call_args = NotRun /\ required = NotRun /\ call_value = NotRun
    /\ CoerceIdle /\ ParseIdle /\ StateIdle /\ LiteralIdle /\ AddIdle /\ ListIdle /\ PipeIdle
    /\ BfIdle /\ FoldIdle /\ ScanIdle

NextCall == EvalCall

SpecCall == InitCall /\ [][NextCall]_allvars

-----------------------------------------------------------------------------
(* The grammar the parser is specified against:                            *)
(*   Prog := Expr EOF          Expr := '(' ExprBody ')'                    *)
(*   ExprBody := FuncCall | Val    FuncCall := ReservedOp Args             *)
(*   Args := Val+              List := '[' Val+ ']'                        *)
(*   Val := List | Expr | terminal token                                   *)
(* DerivesX(t, i) is the index after the X that starts at t[i], or 0 when  *)
(* no X starts there.  One token of lookahead decides every choice, so the *)
(* index is unique.                                                        *)

RECURSIVE DerivesVal(_, _), DerivesVals(_, _, _), DerivesExpr(_, _)

\* The index after '(' ExprBody, which must hold ')'.
DerivesExprClose(t, j) == IF j = 0 \/ j > Len(t) THEN 0 ELSE IF t[j] = RParen THEN j + 1 ELSE 0

DerivesExpr(t, i) ==
    IF i + 1 > Len(t) THEN 0
    ELSE IF t[i] # LParen THEN 0
    ELSE IF t[i + 1][1] = "Reserved" THEN DerivesExprClose(t, DerivesVals(t, i + 2, RParen))
    ELSE DerivesExprClose(t, DerivesVal(t, i + 1))

\* One or more Val from t[i] on, up to the closing token: its index, or 0.
DerivesValsNext(t, j, close) ==
    IF j = 0 \/ j > Len(t) THEN 0 ELSE IF t[j] = close THEN j ELSE DerivesVals(t, j, close)

DerivesVals(t, i, close) == DerivesValsNext(t, DerivesVal(t, i), close)

DerivesListClose(j) == IF j = 0 THEN 0 ELSE j + 1

DerivesVal(t, i) ==
    IF i > Len(t) THEN 0
    ELSE IF IsTerminalValToken(t[i]) THEN i + 1
    ELSE IF t[i] = LBrack THEN DerivesListClose(DerivesVals(t, i + 1, RBrack))
    ELSE IF t[i] = LParen THEN DerivesExpr(t, i)
    ELSE 0

\* The whole stream is Expr EOF.
Derivable(t) == DerivesExpr(t, 1) = Len(t) /\ t[Len(t)] = EOF

\* The tokens at the leaves of a tree, left to right, an Args or ListBody node
\* contributing the values of its spine in the order the evaluator walks it.
RECURSIVE Leaves(_)
ConcatLeaves(nodes) ==
    LET RECURSIVE Cat(_)
        Cat(k) == IF k > Len(nodes) THEN <<>> ELSE Leaves(nodes[k]) \o Cat(k + 1)
    IN Cat(1)

Leaves(node) ==
    IF IsLeaf(node) THEN <<node.leaf>>
    ELSE IF node.rule \in {"Args", "ListBody"} THEN ConcatLeaves(spine(node))
    ELSE ConcatLeaves(node.children)

\* C2: for every token stream derivable from the grammar parse_prog succeeds
\* and returns the number of tokens that precede EOF.
ParseAcceptsGrammar ==
    (parsed.kind # "NotRun" /\ Derivable(tokens)) =>
        parsed.kind = "Ok" /\ parsed.val.cnt = Len(tokens) - 1

\* C3: when parse_prog succeeds, the values found by walking the Args and
\* ListBody spines are the source values in source order: the tokens of the
\* tree, read off spine by spine, are the tokens of the program, each once.
SpineIsSourceOrder ==
    (parsed.kind = "Ok" /\ Derivable(tokens)) =>
        Leaves(parsed.val.node) = SubSeq(tokens, 1, parsed.val.cnt)

\* C4: parse_prog accepts a token stream only if it is derivable from the
\* grammar: on any other stream it returns a parse error, never a tree.
ParseAcceptsOnlyGrammar ==
    (parsed.kind # "NotRun" /\ ~Derivable(tokens)) => parsed.kind = "Err"

-----------------------------------------------------------------------------
\* C1: coerce_types(a, b) succeeds iff coerce_types(b, a) succeeds, and when
\* both succeed they return the same type.
CoerceSymmetric ==
    coerced.kind # "NotRun" =>
        LET swapped == coerce_types(second, first) IN
        /\ (coerced.kind = "Ok") <=> (swapped.kind = "Ok")
        /\ coerced.kind = "Ok" => coerced.val = swapped.val

\* C1 witness: a polymorphic pair in the order where the first operand is kept.
CoerceSymmetricWitness ==
    /\ first = NegNumber /\ second = Number
    /\ coerced.kind = "Ok" /\ coerced.val = NegNumber

\* C8: create_var on an identifier that is already declared (set or unset)
\* returns an error and leaves the State unchanged; on an undeclared identifier
\* it succeeds and adds the identifier with the given value.
CreateVarNoRedeclaration ==
    [][last'.op = "create_var" =>
        IF last'.ident \in Declared
        THEN last'.res.kind = "Err" /\ vars' = vars
        ELSE last'.res.kind = "Ok" /\ vars' = [vars EXCEPT ![last'.ident] = last'.arg]
      ]_allvars

\* C8 witness: a rejected create_var whose argument differs from what the
\* variable holds, for a variable that is set and for one that is unset.
CreateVarNoRedeclarationWitness ==
    /\ last.op = "create_var" /\ last.res.kind = "Err"
    /\ vars[last.ident] # last.arg
    /\ vars[<<"x">>].st = "Set" /\ vars[<<"y">>].st = "Unset"

\* C9: set_var on an identifier never declared with create_var returns an error,
\* does not declare it and leaves the State unchanged; an identifier that was
\* never declared never makes get_var succeed.
SetVarUndeclaredFails ==
    /\ [][(last'.op = "set_var" /\ last'.ident \notin Declared) =>
            /\ last'.res.kind = "Err"
            /\ vars' = vars
            /\ vars'[last'.ident] = Absent
         ]_allvars
    /\ [](\A i \in Idents \ Declared : get_var(vars, i).kind = "Err")

\* C9 witness: a rejected set_var on an undeclared identifier, next to a
\* declared one.
SetVarUndeclaredFailsWitness ==
    /\ last.op = "set_var" /\ last.res.kind = "Err"
    /\ last.ident \notin Declared
    /\ Declared # {}

\* C10: get_var gives the 'not initialized at all' error for an identifier
\* never declared, the different 'initialized but not set' error for one
\* declared without a value and never set, and the held value otherwise.
GetVarThreeCases ==
    /\ NotInitialized # NotSet
    /\ [][last'.op = "get_var" =>
            LET cell == held[last'.ident]
                r == last'.res
            IN  /\ cell.st = "Absent" => r.kind = "Err" /\ r.msg = NotInitialized
                /\ cell.st = "Unset" => r.kind = "Err" /\ r.msg = NotSet
                /\ cell.st = "Set" => r.kind = "Ok" /\ r.val = cell.v
         ]_allvars

\* C10 witness: get_var on a declared, unset identifier while another
\* identifier is undeclared.
GetVarThreeCasesWitness ==
    /\ last.op = "get_var" /\ held[last.ident].st = "Unset"
    /\ last.res.kind = "Err" /\ last.res.msg = NotSet
    /\ \E i \in Idents : held[i].st = "Absent"

\* C5: Value::try_from(NumLiteral) follows the resolution table for every
\* suffix, float flag, sign and int_part.
LiteralResolutionTable ==
    converted.kind # "NotRun" =>
        LET l == literal
            r == converted
        IN  /\ (l.suffix = "None" /\ l.float) => r.kind = "Ok" /\ r.val.ty = FloatType
            /\ (l.suffix = "None" /\ ~l.float /\ l.negative) =>
                  r.kind = "Ok" /\ r.val = Value(NegNumber, <<"NegNumber", 0 - l.int_part>>)
            /\ (l.suffix = "None" /\ ~l.float /\ ~l.negative) =>
                  r.kind = "Ok" /\ r.val = Value(Number, <<"Number", l.int_part>>)
            /\ l.suffix = "Char" =>
                  IF ~l.float /\ ~l.negative /\ l.int_part <= 255
                  THEN r.kind = "Ok" /\ r.val = Value(CharType, <<"Char", l.int_part>>)
                  ELSE r.kind = "Err"
            /\ l.suffix = "Float" => r.kind = "Ok" /\ r.val.ty = FloatType
            /\ l.suffix = "Unsigned" =>
                  IF ~l.float /\ ~l.negative
                  THEN r.kind = "Ok"
                       /\ r.val = Value(ConcreteType(<<"UInt">>), <<"UInt", l.int_part>>)
                  ELSE r.kind = "Err"

\* The payload of an operand of eval_add as a number of the coerced type ty.
AddOperand(v, ty) ==
    IF ty = FloatType /\ v.val[1] # "Float" THEN v.val[2] * FloatScale ELSE v.val[2]

AddNumericTypes ==
    {Number, NegNumber, ConcreteType(<<"Int">>), ConcreteType(<<"UInt">>), FloatType}

AddPayloadTag(ty) == IF ty \in {Number, NegNumber} THEN ty[1] ELSE ty[2][1]

\* What the addition of values a and b is specified to return, given the
\* coercion c of their types.
AddSpecified(a, b, c, r) ==
    IF c.kind # "Ok" THEN r.kind = "Err"
    ELSE IF c.val \in AddNumericTypes
    THEN r = Ok(Value(c.val, <<AddPayloadTag(c.val),
                                AddOperand(a, c.val) + AddOperand(b, c.val)>>))
    ELSE IF c.val = UnitType THEN r = Ok(Value(UnitType, <<"Unit">>))
    ELSE r.kind = "Err"

\* C6: eval_add on two values returns a value of the coerced type whose payload
\* is the sum of the operands' payloads converted to that type when the coerced
\* type is Number, NegNumber, Int, UInt or Float; Unit for Unit + Unit; and an
\* error for every other coerced type.
AddFollowsCoercion ==
    sum # NotRun =>
        AddSpecified(args[2][2], args[1][2],
                     coerce_types(args[2][2].ty, args[1][2].ty), sum)

\* The items of a list node, in source order.
ItemsOf(node) ==
    IF Len(node.children[1].children) = 0 THEN <<>> ELSE spine(node.children[1])

\* coerce_types folded over the first k of the types tys, from the left.
RECURSIVE FoldCoerce(_, _)
FoldCoerce(tys, k) ==
    IF k = 1 THEN Ok(tys[1]) ELSE coerce_step(FoldCoerce(tys, k - 1), tys[k])

\* The element type a folded type stands for.
ListElementType(t) == IF t \in {Number, NegNumber} THEN <<"Int">> ELSE t[2]

\* What the evaluation of a list whose items evaluate to rs is specified to
\* return.
ListSpecified(rs, r) ==
    IF Len(rs) = 0 THEN r.kind = "Err"
    ELSE (\A k \in 1..Len(rs) : rs[k].kind = "Ok") =>
         IF FoldCoerce([k \in 1..Len(rs) |-> rs[k].val.ty], Len(rs)).kind # "Ok"
         THEN r.kind = "Err"
         ELSE r = Ok(Value(
                  ConcreteType(ListOf(ListElementType(
                      FoldCoerce([k \in 1..Len(rs) |-> rs[k].val.ty], Len(rs)).val))),
                  <<"List", [k \in 1..Len(rs) |-> rs[k].val]>>))

NoStageAborts ==
    lexed.kind # "Panic" /\ prog.kind # "Panic" /\ result.kind # "Panic"

\* C12: a call whose evaluated arguments do not match the arity or the kinds
\* its operator requires evaluates to an error, never to a value and never by
\* aborting.
CallMismatchIsError ==
    (call_value # NotRun /\ call_args.kind = "Ok"
        /\ arg_kinds(call_args.val) # get_arg_types(call_node.children[1].leaf[2]))
    => call_value.kind = "Err"

\* The text of a coerce_types error that names the abstract type t.
NamedByText(text, t) ==
    \/ t = Number /\ text = "Unable to coerce Number into"
    \/ t = NegNumber /\ text = "Unable to coerce NegNumber into"
    \/ t = AbsList /\ text \in {"Unable to coerce list into", "Unable to coerce List into"}

\* The error message msg of coerce_types identifies the type t: by its text or
\* by a type it prints.
Identifies(msg, t) ==
    IF Len(msg) = 2
    THEN NamedByText(msg[1], t) \/ msg[2] = t \/ (IsConcrete(t) /\ msg[2] = t[2])
    ELSE IsConcrete(t) /\ t[2] \in {msg[2], msg[4]}

\* C13: whenever coerce_types(first, second) fails, the error identifies both
\* operand types.
CoerceErrorNamesBoth ==
    coerced.kind = "Err" =>
        Identifies(coerced.msg, first) /\ Identifies(coerced.msg, second)

\* The argument kinds the dispatch table is specified to hold.
SpecifiedKinds(func) ==
    IF func \in {"Add", "Sub", "Div", "Mul", "Eq", "Neq", "Leq", "Geq", "Lt", "Gt", "And",
                 "Or", "Concat", "Take", "Prepend", "While"}
    THEN {<<"Value", "Value">>}
    ELSE IF func \in {"Write", "Read", "Eval", "ToString"} THEN {<<"Value">>}
    ELSE IF func \in {"Set", "Def"} THEN {<<"Ident", "Value">>}
    ELSE IF func = "Init" THEN {<<"Ident", "Type">>}
    ELSE IF func = "If" THEN {<<"Value", "Value", "Value">>}
    ELSE {<<"Value">>, <<"Value", "Value">>, <<"Value", "Value", "Value">>,
          <<"Ident", "Value">>, <<"Ident", "Type">>}

\* C14: get_arg_types has an entry for every reserved operator, and the entry
\* is the one the argument-kind contract gives.
DispatchTableTotal ==
    required.kind = "Ok" => required.val \in SpecifiedKinds(call_node.children[1].leaf[2])

IsLeafVal(node, tags) ==
    IsRule(node, "Val") /\ IsLeaf(node.children[1]) /\ node.children[1].leaf[1] \in tags

\* A well-formed call of an operator that binds a name: (set x v), (def x v)
\* or (init x type).
BindingCall(node) ==
    /\ node.children[1].leaf[2] \in {"Set", "Def", "Init"}
    /\ Len(spine(node.children[2])) = 2
    /\ IsLeafVal(spine(node.children[2])[1], {"Ident"})
    /\ IF node.children[1].leaf[2] = "Init"
       THEN IsLeafVal(spine(node.children[2])[2], {"Type"})
       ELSE IsLeafVal(spine(node.children[2])[2], {"NumLiteral", "UnitLiteral"})

\* C15: in a well-formed call of set, def or init the identifier is passed as
\* Argument::Ident and the type name as Argument::Type, so that the arguments
\* reach the operator with the kinds get_arg_types requires.
BindingArgsKeepKind ==
    (call_value # NotRun /\ BindingCall(call_node)) =>
        /\ call_args.kind = "Ok"
        /\ arg_kinds(call_args.val) = get_arg_types(call_node.children[1].leaf[2])

\* Every element of a value of type List(t) has a type that coerces with t to
\* t, and so on inside the elements.
RECURSIVE Homogeneous(_)
Homogeneous(v) ==
    (IsConcrete(v.ty) /\ IsListType(v.ty[2])) =>
        /\ v.val[1] = "List"
        /\ \A k \in 1..Len(v.val[2]) :
               /\ coerce_types(v.val[2][k].ty, ConcreteType(v.ty[2][2]))
                      = Ok(ConcreteType(v.ty[2][2]))
               /\ Homogeneous(v.val[2][k])

\* C16: a value of type List(t) that evaluation returns holds only elements
\* whose types coerce with t to exactly t, recursively for nested lists.
ListValuesHomogeneous ==
    list_value.kind = "Ok" => Homogeneous(list_value.val)

\* A list of lists and a list of a Number and a UInt were evaluated.
ListValuesHomogeneousWitness ==
    /\ list_value.kind = "Ok"
    /\ Len(list_value.val.val[2]) >= 2
    /\ \/ IsListType(list_value.val.ty[2][2])
       \/ \E j, k \in 1..Len(list_value.val.val[2]) :
              list_value.val.val[2][j].ty # list_value.val.val[2][k].ty

\* The parenthesis tokens the text calls for, left to right: a unit literal
\* for "(" immediately followed by ")", a left parenthesis for any other "(".
RECURSIVE OpenParens(_, _)
OpenParens(text, i) ==
    IF i > Len(text) THEN <<>>
    ELSE IF text[i] # "(" THEN OpenParens(text, i + 1)
    ELSE IF i < Len(text) /\ text[i + 1] = ")"
         THEN <<UnitLiteralToken>> \o OpenParens(text, i + 2)
    ELSE <<LParen>> \o OpenParens(text, i + 1)

IsOpenParenToken(t) == t \in {LParen, UnitLiteralToken}

ParenText(ps) == \A k \in 1..Len(ps) : ps[k] \in {<<"(">>, <<")">>, <<" ">>}

\* C17: "(" immediately followed by ")" gives one unit literal and any other
\* "(", followed by a space, another character or the end of the input,
\* gives a left parenthesis: a text of parentheses and spaces is tokenized,
\* and the parenthesis tokens of any tokenized text are the ones its ASCII
\* characters call for.
OpenParenTokens ==
    lexed # NotRun =>
        /\ ParenText(pieces) => lexed.kind = "Ok"
        /\ lexed.kind = "Ok" =>
               SelectSeq(lexed.val, IsOpenParenToken)
                   = OpenParens(filter_ascii(Flatten(pieces)), 1)

\* The keyword each operator symbol is an alias of.
KeywordOf(piece) ==
    CASE piece = <<"+">> -> <<"a", "d", "d">>
      [] piece = <<"-">> -> <<"s", "u", "b">>
      [] piece = <<"/">> -> <<"d", "i", "v">>
      [] piece = <<"*">> -> <<"m", "u", "l">>

SymbolPieces == {<<"+">>, <<"-">>, <<"/">>, <<"*">>}

DelimiterPieces == {<<"(">>, <<")">>, <<"[">>, <<"]">>, <<" ">>}

\* The operator at k stands on its own: what is next to it is a delimiter or
\* an end of the text.
StandsAlone(ps, k) ==
    /\ k = 1 \/ ps[k - 1] \in DelimiterPieces
    /\ k = Len(ps) \/ ps[k + 1] \in DelimiterPieces

SameTokens(a, b) == IF a.kind = "Ok" THEN b = a ELSE b.kind # "Ok"

\* C18: a program and the program that spells one occurrence of +, -, / or *
\* with its keyword tokenize to the same tokens, or both fail.
AliasesTokenizeAlike ==
    lexed # NotRun =>
        \A k \in 1..Len(pieces) :
            (pieces[k] \in SymbolPieces /\ StandsAlone(pieces, k)) =>
                SameTokens(lexed,
                           tokenize(Flatten([pieces EXCEPT ![k] = KeywordOf(pieces[k])]),
                                    overflow_checks))

\* The type a text names in the grammar
\* int | uint | float | unit | char | bool | list<T> | tuple<T,T>,
\* or NoType.
NoType == <<"NoType">>

RECURSIVE GrammarType(_)
GrammarTuple(text, commas) ==
    IF commas = {} THEN NoType
    ELSE LET k == CHOOSE c \in commas : TRUE
         IN TupleOf(GrammarType(SubSeq(text, 7, k - 1)),
                    GrammarType(SubSeq(text, k + 1, Len(text) - 1)))

GrammarType(text) ==
    IF \E e \in TypeNames : e[1] = text
    THEN (CHOOSE e \in TypeNames : e[1] = text)[2]
    ELSE IF Len(text) > 6 /\ SubSeq(text, 1, 5) = <<"l", "i", "s", "t", "<">>
            /\ text[Len(text)] = ">"
    THEN IF GrammarType(SubSeq(text, 6, Len(text) - 1)) = NoType THEN NoType
         ELSE ListOf(GrammarType(SubSeq(text, 6, Len(text) - 1)))
    ELSE IF Len(text) > 8 /\ SubSeq(text, 1, 6) = <<"t", "u", "p", "l", "e", "<">>
            /\ text[Len(text)] = ">"
    THEN GrammarTuple(text,
                      {k \in 8..(Len(text) - 2) :
                           /\ text[k] = ","
                           /\ GrammarType(SubSeq(text, 7, k - 1)) # NoType
                           /\ GrammarType(SubSeq(text, k + 1, Len(text) - 1)) # NoType})
    ELSE NoType

\* The identifier runs among the pieces, and the pieces that end a run and
\* are tokens on their own.
RunPieces == {p \in Pieces : IsLetter(p[1])}

HasAngle(text) == \E k \in 1..Len(text) : text[k] \in {"<", ">"}

ClosingPieces == {<<")">>, <<"[">>, <<"]">>, <<" ">>}

ClosingToken(p) ==
    CASE p = <<")">> -> <<RParen>>
      [] p = <<"[">> -> <<LBrack>>
      [] p = <<"]">> -> <<RBrack>>
      [] p = <<" ">> -> <<>>

\* Each piece is a run or a closing piece, and no run touches another one.
RunText(ps) ==
    /\ \A k \in 1..Len(ps) : ps[k] \in RunPieces \cup ClosingPieces
    /\ \A k \in 1..(Len(ps) - 1) : ~(ps[k] \in RunPieces /\ ps[k + 1] \in RunPieces)

\* The token of a run: Type, else Reserved, else Ident.
RunToken(text) ==
    IF GrammarType(text) # NoType THEN TypeToken(GrammarType(text))
    ELSE IF ReservedIdent_try_from(text).kind = "Ok"
    THEN Reserved(ReservedIdent_try_from(text).val)
    ELSE IdentToken(text)

RunIsError(text) == HasAngle(text) /\ GrammarType(text) = NoType

RECURSIVE RunTokens(_)
RunTokens(ps) ==
    IF Len(ps) = 0 THEN <<EOF>>
    ELSE IF Head(ps) \in RunPieces THEN <<RunToken(Head(ps))>> \o RunTokens(Tail(ps))
    ELSE ClosingToken(Head(ps)) \o RunTokens(Tail(ps))

\* C19: every run of identifier characters that starts with a letter gives
\* exactly one token, Type before Reserved before Ident, also when it ends
\* the input, and a run with "<" or ">" that names no type is a lex error.
RunsGiveOneToken ==
    (lexed # NotRun /\ RunText(pieces)) =>
        IF \E k \in 1..Len(pieces) : pieces[k] \in RunPieces /\ RunIsError(pieces[k])
        THEN lexed.kind = "Err"
        ELSE lexed = Ok(RunTokens(pieces))

-----------------------------------------------------------------------------
(* Tokenization of one type name followed by a closing piece.              *)

\* The text that names a type: int, list<T>, tuple<T,T>
RECURSIVE TypeText(_)
TypeText(t) ==
    IF t \in BaseTypes THEN (CHOOSE e \in TypeNames : e[2] = t)[1]
    ELSE IF IsListType(t) THEN <<"l", "i", "s", "t", "<">> \o TypeText(t[2]) \o <<">">>
    ELSE <<"t", "u", "p", "l", "e", "<">> \o TypeText(t[2]) \o <<",">> \o TypeText(t[3])
             \o <<">">>

\* The types named: those of Types, lists of lists, tuples of lists and tuples.
NamedTypes ==
    Types \cup {ListOf(ListOf(t)) : t \in BaseTypes}
          \cup {TupleOf(a, b) : a, b \in {<<"Int">>, ListOf(<<"Char">>),
                                          TupleOf(<<"Int">>, <<"Bool">>)}}

\* Texts that name no type.
OtherTexts ==
    {
     <<"x">>,
     <<"I", "n", "t">>,
     <<"i", "n", "t", "x">>,
     <<"l", "i", "s", "t">>,
     <<"l", "i", "s", "t", "<", ">">>,
     <<"l", "i", "s", "t", "<", "x", ">">>,
     <<"l", "i", "s", "t", "<", "i", "n", "t">>,
     <<"l", "i", "s", "t", "<", "i", "n", "t", ">", ">">>,
     <<"l", "i", "s", "t", "<", "i", "n", "t", ">", "x">>,
     <<"i", "n", "t", "<", "i", "n", "t", ">">>,
     <<"t", "u", "p", "l", "e">>,
     <<"t", "u", "p", "l", "e", "<", "x", ",", "i", "n", "t", ">">>
    }

NameTexts == {TypeText(t) : t \in NamedTypes} \cup OtherTexts

InitTypeName ==
    /\ \E name \in NameTexts, closing \in {<<" ">>, <<")">>} : pieces = <<name, closing>>
    /\ overflow_checks \in BOOLEAN
    /\ lexed = NotRun /\ prog = NotRun /\ result = NotRun
    /\ CoerceIdle /\ ParseIdle /\ StateIdle /\ LiteralIdle /\ AddIdle /\ ListIdle /\ CallIdle /\ BfIdle /\ FoldIdle /\ ScanIdle

SpecTypeName == InitTypeName /\ [][Tokenize]_allvars

IsTypeToken(t) == t[1] = "Type"

\* C20: every type name of the grammar
\* int | uint | float | unit | char | bool | list<T> | tuple<T,T> is
\* tokenized into one Type token of that type, and no other text is
\* tokenized into a Type token.
TypeNamesTokenize ==
    (lexed # NotRun /\ Len(pieces) = 2) =>
        IF GrammarType(pieces[1]) # NoType
        THEN lexed = Ok(<<TypeToken(GrammarType(pieces[1]))>> \o ClosingToken(pieces[2])
                            \o <<EOF>>)
        ELSE lexed.kind = "Ok" => SelectSeq(lexed.val, IsTypeToken) = <<>>

-----------------------------------------------------------------------------
(* Tokenization of texts made of the characters of numeric literals.       *)

MaxNumberPieces == 5

\* The pieces of the literal texts: a sign, digits, the point, the suffixes
\* and two characters that end a literal.
NumberPieces ==
    {<<"-">>, <<"0">>, <<"1">>, <<"3">>, <<".">>, <<"u">>, <<"f">>, <<"c">>, <<" ">>, <<")">>}

InitNumber ==
    /\ \E n \in 0..MaxNumberPieces : pieces \in [1..n -> NumberPieces]
    /\ overflow_checks \in BOOLEAN
    /\ lexed = NotRun /\ prog = NotRun /\ result = NotRun
    /\ CoerceIdle /\ ParseIdle /\ StateIdle /\ LiteralIdle /\ AddIdle /\ ListIdle /\ CallIdle /\ BfIdle /\ FoldIdle /\ ScanIdle

SpecNumber == InitNumber /\ [][Tokenize]_allvars

\* The decimal value of a sequence of digits.
RECURSIVE DecimalValue(_)
DecimalValue(digits) ==
    IF Len(digits) = 0 THEN 0
    ELSE 10 * DecimalValue(SubSeq(digits, 1, Len(digits) - 1)) + to_digit(digits[Len(digits)])

\* The index of the last digit of the run of digits that starts at k
\* (k - 1 when there is no digit at k).
RECURSIVE DigitsEnd(_, _)
DigitsEnd(text, k) ==
    IF k <= Len(text) /\ IsDigit(text[k]) THEN DigitsEnd(text, k + 1) ELSE k - 1

\* The parts of a text that starts with a literal: sign, digits, at most one
\* point with its digits, at most one suffix.
LiteralStart(text) == IF Len(text) > 0 /\ text[1] = "-" THEN 2 ELSE 1

IntEnd(text) == DigitsEnd(text, LiteralStart(text))

HasPoint(text) == IntEnd(text) < Len(text) /\ text[IntEnd(text) + 1] = "."

DecEnd(text) == IF HasPoint(text) THEN DigitsEnd(text, IntEnd(text) + 2) ELSE IntEnd(text)

HasSuffix(text) == DecEnd(text) < Len(text) /\ text[DecEnd(text) + 1] \in {"u", "f", "c"}

LiteralEnd(text) == IF HasSuffix(text) THEN DecEnd(text) + 1 ELSE DecEnd(text)

SuffixOf(text) ==
    IF ~HasSuffix(text) THEN "None"
    ELSE IF text[LiteralEnd(text)] = "u" THEN "Unsigned"
    ELSE IF text[LiteralEnd(text)] = "f" THEN "Float" ELSE "Char"

LiteralOf(text) ==
    NumLiteral(LiteralStart(text) = 2,
               DecimalValue(SubSeq(text, LiteralStart(text), IntEnd(text))),
               HasPoint(text),
               IF HasPoint(text) THEN DecimalValue(SubSeq(text, IntEnd(text) + 2, DecEnd(text)))
               ELSE 0,
               SuffixOf(text))

\* The text is one literal, then nothing, spaces or right parentheses.
OneLiteral(text) ==
    /\ IntEnd(text) >= LiteralStart(text)
    /\ \A k \in (LiteralEnd(text) + 1)..Len(text) : text[k] \in {" ", ")"}

RECURSIVE ClosingTokens(_)
ClosingTokens(text) ==
    IF Len(text) = 0 THEN <<EOF>>
    ELSE ClosingToken(<<Head(text)>>) \o ClosingTokens(Tail(text))

\* C21: a literal that starts at a digit, or at "-" directly followed by a
\* digit, gives one NumLiteral: negative iff it starts with "-", int_part the
\* decimal value of the digits before the point, float iff there is a point,
\* dec_part the decimal value of the digits after it, suffix from a trailing
\* u, f or c; the scan resumes at the first character after the literal.
NumLiteralScan ==
    (lexed # NotRun /\ OneLiteral(Flatten(pieces))) =>
        lexed = Ok(<<NumLiteralToken(LiteralOf(Flatten(pieces)))>>
                       \o ClosingTokens(SliceFrom(Flatten(pieces),
                                                  LiteralEnd(Flatten(pieces)))))

\* The tokens start a call or a list, go on with n numbers and then hold a
\* token that starts no value and does not close the rule.
NumbersThen(toks, opening(_), closing, n) ==
    /\ Len(toks) >= n + 3
    /\ toks[1] = LParen
    /\ opening(toks[2])
    /\ \A k \in 3..(n + 2) : toks[k][1] = "NumLiteral"
    /\ ~IsValToken(toks[n + 3])
    /\ n > 0 => toks[n + 3] # closing

IsReservedToken(t) == t[1] = "Reserved"

IsLBrackToken(t) == t = LBrack

\* C22: a parse error names the rule that was being parsed and the
\* offending token: a token that is no value met while parsing Args is
\* reported as unexpected while parsing arguments, and one met while parsing
\* a ListBody is reported against the list rule.
ParseErrorNamesRule ==
    parsed # NotRun =>
        \A n \in 0..MaxTokens :
            /\ NumbersThen(tokens, IsReservedToken, RParen, n) =>
                   parsed = Err(<<"Unexpected token encountered while parsing arguments",
                                  tokens[n + 3]>>)
            /\ NumbersThen(tokens, IsLBrackToken, RBrack, n) =>
                   parsed = Err(<<"Unexpected token encountered while parsing list",
                                  tokens[n + 3]>>)

\* C23: a NumLiteral token with the Char suffix has int_part <= 255, is not
\* negative and is not float.
CharSuffixInRange ==
    lexed.kind = "Ok" =>
        \A k \in 1..Len(lexed.val) :
            (lexed.val[k][1] = "NumLiteral" /\ lexed.val[k][2].suffix = "Char") =>
                /\ lexed.val[k][2].int_part <= 255
                /\ ~lexed.val[k][2].negative
                /\ ~lexed.val[k][2].float

\* C24: a token sequence that tokenize returns has EOF as its last token and
\* holds no other EOF, for every input, the empty one included.
EndsWithOneEOF ==
    lexed.kind = "Ok" =>
        /\ Len(lexed.val) >= 1
        /\ lexed.val[Len(lexed.val)] = EOF
        /\ \A k \in 1..(Len(lexed.val) - 1) : lexed.val[k] # EOF

\* The empty input and an input of several tokens were tokenized.
EndsWithOneEOFWitness ==
    /\ lexed.kind = "Ok"
    /\ pieces = <<>> \/ Len(lexed.val) >= 4

-----------------------------------------------------------------------------
(* brainfuck.rs: BrainfuckProgram.  The tape has TapeLen cells of CellBits *)
(* bits (30000 cells of 8 bits in the source).  Indices are those of the   *)
(* source, from 0: code[i] of the source is code[i + 1] here.              *)

TapeLen == 3

CellBits == 2

CellMod == Pow2(CellBits)

MaxCode == 5

MaxOutput == 6

\* VALID_CHARS
VALID_CHARS == {"<", ">", "+", "-", ".", ",", "[", "]"}

\* input.chars().filter(|c| c.is_ascii() && VALID_CHARS.contains(c))
RECURSIVE filter_valid(_)
filter_valid(input) ==
    IF Len(input) = 0 THEN <<>>
    ELSE IF is_ascii(Head(input)) /\ Head(input) \in VALID_CHARS
    THEN <<Head(input)>> \o filter_valid(Tail(input))
    ELSE filter_valid(Tail(input))

\* new_full: the loop over the filtered characters, i being the index of the
\* character read; stack holds the indices of the open brackets.
RECURSIVE bracket_loop(_, _, _, _)
bracket_loop(code, i, stack, loops) ==
    IF i >= Len(code)
    THEN IF Len(stack) # 0 THEN Err("Detected mismatched brackets, too many [")
         ELSE Ok(loops)
    ELSE IF code[i + 1] = "[" THEN bracket_loop(code, i + 1, stack \o <<i>>, loops)
    ELSE IF code[i + 1] = "]"
    THEN IF Len(stack) = 0 THEN Err("Detected mismatched brackets, too many ]")
         ELSE bracket_loop(code, i + 1, SubSeq(stack, 1, Len(stack) - 1),
                           (stack[Len(stack)] :> i) @@ (i :> stack[Len(stack)]) @@ loops)
    ELSE bracket_loop(code, i + 1, stack, loops)

\* new_full: Ok(Self { code, loops, writer, reader, mem: [0; 30000], ip: 0, dp: 0 })
new_program(code, r, writer, reader) ==
    IF r.kind # "Ok" THEN r
    ELSE Ok([code |-> code, loops |-> r.val, writer |-> writer, reader |-> reader,
             mem |-> [k \in 0..(TapeLen - 1) |-> 0], ip |-> 0, dp |-> 0])

\* BrainfuckProgram::new_full
new_full(input, writer, reader) ==
    new_program(filter_valid(input),
                bracket_loop(filter_valid(input), 0, <<>>, <<>>), writer, reader)

IndexPanic == Panic("index out of bounds")

\* A bracket that never jumps.
jump_falls_through(m) == Ok(m)

\* self.ip = *self.loops.get(&self.ip).ok_or("Unable to get matching bracket")?
jump(m) ==
    IF m.ip \notin DOMAIN m.loops THEN Err("Unable to get matching bracket")
    ELSE Ok([m EXCEPT !.ip = m.loops[m.ip]])

\* A '>' that moves the data pointer without looking at the end of the tape.
inc_dp_unchecked(m) == Ok([m EXCEPT !.dp = m.dp + 1])

\* '>' : the data pointer moves right unless it is on the last cell
inc_dp(m) ==
    IF m.dp < TapeLen - 1 THEN Ok([m EXCEPT !.dp = m.dp + 1])
    ELSE Err("Data pointer is 29999, cannot increment")

\* '<' : self.dp.checked_sub(1).ok_or(..)?
dec_dp(m) ==
    IF m.dp = 0 THEN Err("Data pointer is 0, cannot decrement")
    ELSE Ok([m EXCEPT !.dp = m.dp - 1])

\* interpret_naive: the match on self.code[self.ip]
execute(m) ==
    IF m.code[m.ip + 1] = "<" THEN dec_dp(m)
    ELSE IF m.code[m.ip + 1] = ">" THEN inc_dp(m)
    ELSE IF m.dp \notin DOMAIN m.mem THEN IndexPanic
    ELSE IF m.code[m.ip + 1] = "+"
    THEN Ok([m EXCEPT !.mem[m.dp] = (m.mem[m.dp] + 1) % CellMod])
    ELSE IF m.code[m.ip + 1] = "-"
    THEN Ok([m EXCEPT !.mem[m.dp] = (m.mem[m.dp] + CellMod - 1) % CellMod])
    ELSE IF m.code[m.ip + 1] = "."
    THEN Ok([m EXCEPT !.writer = m.writer \o <<m.mem[m.dp]>>])
    ELSE IF m.code[m.ip + 1] = ","
    THEN IF Len(m.reader) = 0
         THEN Err(<<"Read bytes from configured reader, expected exactly 1", 0>>)
         ELSE Ok([m EXCEPT !.mem[m.dp] = Head(m.reader), !.reader = Tail(m.reader)])
    ELSE IF m.code[m.ip + 1] = "["
    THEN IF m.mem[m.dp] = 0 THEN jump(m) ELSE Ok(m)
    ELSE IF m.code[m.ip + 1] = "]"
    THEN IF m.mem[m.dp] # 0 THEN jump(m) ELSE Ok(m)
    ELSE Err(<<"Unexpected char in code", m.code[m.ip + 1]>>)

\* self.ip += 1
advance(r) == IF r.kind # "Ok" THEN r ELSE Ok([r.val EXCEPT !.ip = r.val.ip + 1])

\* interpret_naive: one iteration of the loop that does not break
iterate(m) == advance(execute(m))

\* What a finished run leaves: Ok(self.mem) or the error, and what was written.
Finished(kind, value, writer) == [kind |-> kind, val |-> value, writer |-> writer]

\* interpret_naive, run for at most fuel iterations
RECURSIVE interpret_naive(_, _)
interpret_next(m, r, fuel) ==
    IF r.kind = "Ok" THEN interpret_naive(r.val, fuel - 1)
    ELSE Finished(r.kind, r.msg, m.writer)

interpret_naive(m, fuel) ==
    IF m.ip >= Len(m.code) THEN Finished("Ok", m.mem, m.writer)
    ELSE IF fuel = 0 THEN Finished("Running", m.mem, m.writer)
    ELSE interpret_next(m, iterate(m), fuel)

(* brainfuck/optimizations.rs                                              *)

Repeat(c, n) == [k \in 1..n |-> c]

\* A handle_seq that keeps the sign of the run's first kind of character
\* whichever one is in the majority.
handle_seq_one_sign(c1, c2, c1c, c2c, r) ==
    IF c1c < c2c THEN r \o Repeat(c1, c2c - c1c)
    ELSE IF c1c > c2c THEN r \o Repeat(c1, c1c - c2c)
    ELSE r

\* max_reduction!: handle_seq
handle_seq(c1, c2, c1c, c2c, r) ==
    IF c1c < c2c THEN r \o Repeat(c2, c2c - c1c)
    ELSE IF c1c > c2c THEN r \o Repeat(c1, c1c - c2c)
    ELSE r

\* max_reduction!: the loop over the input, k being the index of the
\* character read, and the leftover sequence handled after it
RECURSIVE max_reduction_loop(_, _, _, _, _, _, _)
max_reduction_loop(c1, c2, input, k, c1_count, c2_count, res) ==
    IF k > Len(input) THEN handle_seq(c1, c2, c1_count, c2_count, res)
    ELSE IF input[k] = c1
    THEN max_reduction_loop(c1, c2, input, k + 1, c1_count + 1, c2_count, res)
    ELSE IF input[k] = c2
    THEN max_reduction_loop(c1, c2, input, k + 1, c1_count, c2_count + 1, res)
    ELSE max_reduction_loop(c1, c2, input, k + 1, 0, 0,
                            handle_seq(c1, c2, c1_count, c2_count, res) \o <<input[k]>>)

\* max_reduction!
max_reduction(c1, c2, input) == max_reduction_loop(c1, c2, input, 1, 0, 0, <<>>)

\* math_reduction
math_reduction(input) == max_reduction("+", "-", input)

-----------------------------------------------------------------------------
(* A Brainfuck program is built and interpreted, one loop iteration of     *)
(* interpret_naive at a time.                                              *)

\* What the reader may hold: nothing, or one byte.
Readers == {<<>>, <<1>>}

\* A build that fails ends the run with its error.
new_outcome(r) == IF r.kind = "Ok" THEN NotRun ELSE Finished(r.kind, r.msg, <<>>)

New ==
    /\ self = NotRun
    /\ self' = new_full(bf_input, <<>>, bf_reader)
    /\ outcome' = new_outcome(new_full(bf_input, <<>>, bf_reader))
    /\ UNCHANGED <<bf_input, bf_reader, reduced, outcome_reduced, coerceVars, parseVars,
                   stateVars, literalVars, addVars, listVars, pipeVars, callVars, foldVars,
                   scanVars, overflow_checks>>

\* The iteration ended with Ok: the program goes on; otherwise the run ends.
step_self(m, r) == IF r.kind = "Ok" THEN r ELSE Ok(m)

step_outcome(m, r) == IF r.kind = "Ok" THEN NotRun ELSE Finished(r.kind, r.msg, m.writer)

Step ==
    /\ self.kind = "Ok" /\ outcome = NotRun
    /\ self.val.ip < Len(self.val.code)
    /\ Len(self.val.writer) < MaxOutput
    /\ self' = step_self(self.val, iterate(self.val))
    /\ outcome' = step_outcome(self.val, iterate(self.val))
    /\ UNCHANGED <<bf_input, bf_reader, reduced, outcome_reduced, coerceVars, parseVars,
                   stateVars, literalVars, addVars, listVars, pipeVars, callVars, foldVars,
                   scanVars, overflow_checks>>

\* if self.ip >= self.code.len() { break } ... Ok(self.mem)
Return ==
    /\ self.kind = "Ok" /\ outcome = NotRun
    /\ self.val.ip >= Len(self.val.code)
    /\ outcome' = Finished("Ok", self.val.mem, self.val.writer)
    /\ UNCHANGED <<bf_input, bf_reader, self, reduced, outcome_reduced, coerceVars, parseVars,
                   stateVars, literalVars, addVars, listVars, pipeVars, callVars, foldVars,
                   scanVars, overflow_checks>>

IsCode(input) == \E n \in 0..MaxCode : input \in [1..n -> VALID_CHARS]

InitBrainfuck ==
    /\ IsCode(bf_input)
    /\ bf_reader \in Readers
    /\ self = NotRun /\ reduced = NotRun /\ outcome = NotRun /\ outcome_reduced = NotRun
    /\ CoerceIdle /\ ParseIdle /\ StateIdle /\ LiteralIdle /\ AddIdle /\ ListIdle /\ PipeIdle
    /\ CallIdle /\ FoldIdle /\ ScanIdle /\ ChecksIdle

NextBrainfuck == New \/ Step \/ Return

SpecBrainfuck == InitBrainfuck /\ [][NextBrainfuck]_allvars

\* The instruction interpret_naive is about to execute.
Running == self.kind = "Ok" /\ outcome = NotRun /\ self.val.ip < Len(self.val.code)

Instruction == self.val.code[self.val.ip + 1]

\* C25: while interpret_naive runs, 0 <= dp <= TapeLen - 1 (29999 in the
\* source): "<" at dp = 0 and ">" at the last cell end the run with an error
\* and do not move the pointer, and no memory access is outside the tape.
DataPointerInTape ==
    /\ self.kind = "Ok" => self.val.dp \in 0..(TapeLen - 1)
    /\ outcome.kind # "Panic"
    /\ (Running /\ Instruction = "<" /\ self.val.dp = 0) =>
           iterate(self.val).kind = "Err"
    /\ (Running /\ Instruction = ">" /\ self.val.dp = TapeLen - 1) =>
           iterate(self.val).kind = "Err"

\* ">" was executed on the last cell and "<" on the first one after a move.
DataPointerInTapeWitness ==
    /\ self.kind = "Ok" /\ outcome.kind = "Err"
    /\ \/ self.val.dp = TapeLen - 1 /\ Instruction = ">"
       \/ self.val.dp = 0 /\ Instruction = "<" /\ self.val.ip >= 2

\* The number of "[" less the number of "]" among code[a..b] (indices from 0).
RECURSIVE Net(_, _, _)
Net(code, a, b) ==
    IF a > b THEN 0
    ELSE Net(code, a, b - 1)
             + (IF code[b + 1] = "[" THEN 1 ELSE IF code[b + 1] = "]" THEN -1 ELSE 0)

Balanced(code) ==
    /\ Net(code, 0, Len(code) - 1) = 0
    /\ \A b \in 0..(Len(code) - 1) : Net(code, 0, b) >= 0

\* The bracket that is paired with the bracket at i in a balanced code.
MatchOf(code, i) ==
    IF code[i + 1] = "["
    THEN CHOOSE j \in (i + 1)..(Len(code) - 1) :
             /\ Net(code, i, j) = 0
             /\ \A k \in (i + 1)..(j - 1) : Net(code, i, k) # 0
    ELSE CHOOSE j \in 0..(i - 1) :
             /\ Net(code, j, i) = 0
             /\ \A k \in (j + 1)..(i - 1) : Net(code, k, i) # 0

Cell == self.val.mem[self.val.dp]

\* The output of +[+.]: 2, 3, .. up to the largest cell value, then 0.
CountUp == [k \in 1..(CellMod - 1) |-> (k + 1) % CellMod]

\* C26: a program is accepted iff its brackets are balanced, and loops then
\* pairs each bracket with its properly nested partner in both directions;
\* "[" on a zero cell continues after its "]", "]" on a non-zero cell
\* continues after its "[", any other bracket falls through; so +[+.]
\* writes 2 .. 255 then 0 and stops with all cells 0.
LoopsFollowBrackets ==
    /\ self # NotRun => (self.kind = "Ok" <=> Balanced(bf_input))
    /\ self.kind = "Ok" =>
           \A i \in 0..(Len(self.val.code) - 1) :
               self.val.code[i + 1] \in {"[", "]"} =>
                   /\ i \in DOMAIN self.val.loops
                   /\ self.val.loops[i] = MatchOf(self.val.code, i)
    /\ (Running /\ Instruction \in {"[", "]"}) =>
           /\ iterate(self.val).kind = "Ok"
           /\ iterate(self.val).val.ip =
                  IF (Instruction = "[") = (Cell = 0)
                  THEN MatchOf(self.val.code, self.val.ip) + 1
                  ELSE self.val.ip + 1
    /\ (bf_input = <<"+", "[", "+", ".", "]">> /\ outcome # NotRun) =>
           outcome = Finished("Ok", [k \in 0..(TapeLen - 1) |-> 0], CountUp)

\* +[+.] ran to its end.
LoopsFollowBracketsWitness ==
    /\ bf_input = <<"+", "[", "+", ".", "]">>
    /\ outcome.kind = "Ok"
    /\ self.val.ip = 5

-----------------------------------------------------------------------------
(* A program text and its math_reduction are both built and interpreted.   *)

MaxFuel == 60

\* BrainfuckProgram::new_full(..)?.interpret_naive()
run_built(r) ==
    IF r.kind = "Ok" THEN interpret_naive(r.val, MaxFuel) ELSE Finished(r.kind, r.msg, <<>>)

run_program(input, reader) == run_built(new_full(input, <<>>, reader))

MathReduction ==
    /\ reduced = NotRun
    /\ reduced' = Ok(math_reduction(bf_input))
    /\ UNCHANGED <<bf_input, bf_reader, self, outcome, outcome_reduced, coerceVars, parseVars,
                   stateVars, literalVars, addVars, listVars, pipeVars, callVars, foldVars,
                   scanVars, overflow_checks>>

Interpret ==
    /\ reduced # NotRun /\ outcome = NotRun
    /\ outcome' = run_program(bf_input, bf_reader)
    /\ outcome_reduced' = run_program(reduced.val, bf_reader)
    /\ UNCHANGED <<bf_input, bf_reader, self, reduced, coerceVars, parseVars,
                   stateVars, literalVars, addVars, listVars, pipeVars, callVars, foldVars,
                   scanVars, overflow_checks>>

NextReduce == MathReduction \/ Interpret

SpecReduce == InitBrainfuck /\ [][NextReduce]_allvars

\* C27: a program and its math_reduction end with the same memory, the same
\* output and the same success or error, whatever the reader holds.
MathReductionPreserves ==
    (outcome # NotRun /\ outcome.kind # "Running") => outcome_reduced = outcome

\* A program that writes was run, and its reduction is shorter.
MathReductionPreservesWitness ==
    /\ outcome.kind = "Ok"
    /\ Len(outcome.writer) > 0
    /\ Len(reduced.val) < Len(bf_input)

-----------------------------------------------------------------------------
(* The fold of check_list_type over the types of a list's elements.        *)

MaxFold == 4

\* The types of the elements: the abstract ones and some concrete ones.
FoldTypes ==
    {Number, NegNumber, AbsList, ConcreteType(<<"Int">>), ConcreteType(<<"UInt">>),
     ConcreteType(<<"Float">>), ConcreteType(<<"Char">>),
     ConcreteType(ListOf(<<"Int">>)), ConcreteType(ListOf(<<"Char">>))}

\* check_list_type: vec.iter().map(|v| v.ty).try_fold(init.ty, coerce_types)
fold_types(tys) == try_fold_types(Ok(tys[1]), tys, 1)

Fold ==
    /\ folded = NotRun
    /\ folded' = fold_types(type_seq)
    /\ UNCHANGED <<type_seq, coerceVars, parseVars, stateVars, literalVars, addVars, listVars,
                   pipeVars, callVars, bfVars, scanVars, overflow_checks>>

InitFold ==
    /\ \E n \in 1..MaxFold : type_seq \in [1..n -> FoldTypes]
    /\ folded = NotRun
    /\ CoerceIdle /\ ParseIdle /\ StateIdle /\ LiteralIdle /\ AddIdle /\ ListIdle /\ PipeIdle
    /\ CallIdle /\ BfIdle /\ ScanIdle /\ ChecksIdle

SpecFold == InitFold /\ [][Fold]_allvars

Orders(n) == {p \in [1..n -> 1..n] : \A i, j \in 1..n : p[i] = p[j] => i = j}

Permuted(tys, p) == [k \in 1..Len(tys) |-> tys[p[k]]]

\* C28: the fold of coerce_types over the types of a list's elements gives
\* the same type, or fails, for every order of the elements.
FoldIgnoresOrder ==
    folded # NotRun =>
        \A p \in Orders(Len(type_seq)) :
            IF folded.kind = "Ok" THEN fold_types(Permuted(type_seq, p)) = folded
            ELSE fold_types(Permuted(type_seq, p)).kind = folded.kind

\* A list of elements of three different types was given a type.
FoldIgnoresOrderWitness ==
    /\ folded.kind = "Ok"
    /\ Cardinality({type_seq[k] : k \in 1..Len(type_seq)}) >= 3

\* The identifiers the State holds an entry for.
Entries(m) == {i \in Idents : m[i].st # "Absent"}

\* C30: a successful set_var(x, v) makes get_var(x) return v, leaves the
\* declared identifiers as they are and get_var(y) as it was for every other
\* y; a successful create_var(x, _) changes get_var for x only; and no call
\* removes a declared identifier.
SetVarFrame ==
    [][/\ (last'.op = "set_var" /\ last'.res.kind = "Ok") =>
              /\ get_var(vars', last'.ident) = Ok(last'.arg.v)
              /\ Entries(vars') = Entries(vars)
              /\ \A y \in Idents \ {last'.ident} : get_var(vars', y) = get_var(vars, y)
       /\ (last'.op = "create_var" /\ last'.res.kind = "Ok") =>
              \A y \in Idents \ {last'.ident} : get_var(vars', y) = get_var(vars, y)
       /\ Entries(vars) \subseteq Entries(vars')
      ]_allvars

\* A set_var succeeded that replaced the value of one variable while the
\* other one held a different value.
SetVarFrameWitness ==
    /\ last.op = "set_var" /\ last.res.kind = "Ok"
    /\ \E y \in Idents \ {last.ident} : vars[y].st = "Set" /\ vars[y] # last.arg

-----------------------------------------------------------------------------
(* tokenize, one iteration of its main loop at a time.                     *)

\* The loop goes on with the cursor at i and the tokens res.
Scanning(i, res) == [kind |-> "Scanning", val |-> res, i |-> i]

\* tokenize: curr_index += count - 1 after handle_num_literal, then += 1
iteration_num(i, res, r) ==
    IF r.kind # "Ok" THEN r
    ELSE Scanning(i + (r.val.count - 1) + 1, res \o <<NumLiteralToken(r.val.lit)>>)

\* tokenize: curr_index += 2 after handle_char_literal, then += 1
iteration_char(i, res, r) ==
    IF r.kind # "Ok" THEN r ELSE Scanning(i + 2 + 1, res \o <<CharLiteralToken(r.val)>>)

\* tokenize: curr_index += s.len() + 1 after handle_string_literal, then += 1
iteration_string(i, res, r) ==
    IF r.kind # "Ok" THEN r
    ELSE Scanning(i + (Len(r.val) + 1) + 1, res \o <<StringLiteralToken(as_bytes(r.val))>>)

\* tokenize: curr_index += adj after handle_identifier, then += 1
iteration_ident(i, res, r) ==
    IF r.kind # "Ok" THEN r ELSE Scanning(i + r.val.adj + 1, res \o <<r.val.tok>>)

\* tokenize: one iteration of the loop that does not break, curr_index being i
tokenize_iteration(input, i, res, checks) ==
    IF input[i + 1] = "+" THEN Scanning(i + 1, res \o <<Reserved("Add")>>)
    ELSE IF input[i + 1] = "/" THEN Scanning(i + 1, res \o <<Reserved("Div")>>)
    ELSE IF input[i + 1] = "*" THEN Scanning(i + 1, res \o <<Reserved("Mul")>>)
    ELSE IF input[i + 1] = "("
    THEN IF i + 1 >= Len(input) THEN EndOfInput
         ELSE IF input[i + 2] = ")" THEN Scanning(i + 1 + 1, res \o <<UnitLiteralToken>>)
         ELSE Scanning(i + 1, res \o <<LParen>>)
    ELSE IF input[i + 1] = ")" THEN Scanning(i + 1, res \o <<RParen>>)
    ELSE IF input[i + 1] = "[" THEN Scanning(i + 1, res \o <<LBrack>>)
    ELSE IF input[i + 1] = "]" THEN Scanning(i + 1, res \o <<RBrack>>)
    ELSE IF IsDigit(input[i + 1])
    THEN iteration_num(i, res, handle_num_literal(SliceFrom(input, i), checks))
    ELSE IF input[i + 1] = "'"
    THEN iteration_char(i, res, handle_char_literal(SliceFrom(input, i)))
    ELSE IF input[i + 1] = "\""
    THEN iteration_string(i, res, handle_string_literal(SliceFrom(input, i)))
    ELSE IF input[i + 1] = "-"
    THEN IF i + 1 >= Len(input) THEN EndOfInput
         ELSE IF input[i + 2] = " " THEN Scanning(i + 1, res \o <<Reserved("Sub")>>)
         ELSE iteration_num(i, res, handle_num_literal(SliceFrom(input, i), checks))
    ELSE IF IsLetter(input[i + 1])
    THEN iteration_ident(i, res, handle_identifier(SliceFrom(input, i)))
    ELSE IF input[i + 1] = " " THEN Scanning(i + 1, res)
    ELSE Err(<<"Haven't implemented the char", input[i + 1]>>)

MaxScanPieces == 3

\* The pieces of the texts scanned.
ScanPieces ==
    {<<"(">>, <<")">>, <<" ">>, <<"+">>, <<"-">>, <<"1">>, <<"2", "u">>, <<".">>, <<"x">>,
     <<"i", "n", "t">>, <<"t", "u", "p", "l", "e", "<", "i", "n", "t", ">">>,
     <<"\"", "a", "\"">>, <<"'", "a", "'">>, <<"'">>, <<"\"">>, <<NonAscii>>}

\* let input = input.into_iter().filter(|c| c.is_ascii()).collect()
Enter ==
    /\ scan_res = NotRun
    /\ scan_input' = filter_ascii(scan_input)
    /\ scan_res' = Scanning(0, <<>>)
    /\ UNCHANGED <<curr_index, coerceVars, parseVars, stateVars, literalVars, addVars, listVars,
                   pipeVars, callVars, bfVars, foldVars, overflow_checks>>

\* The cursor after an iteration: where the loop goes on, or where it stopped.
next_index(i, r) == IF r.kind = "Scanning" THEN r.i ELSE i

Iterate ==
    /\ scan_res.kind = "Scanning"
    /\ curr_index < Len(scan_input)
    /\ scan_res' = tokenize_iteration(scan_input, curr_index, scan_res.val, overflow_checks)
    /\ curr_index' = next_index(curr_index,
                                tokenize_iteration(scan_input, curr_index, scan_res.val,
                                                   overflow_checks))
    /\ UNCHANGED <<scan_input, coerceVars, parseVars, stateVars, literalVars, addVars, listVars,
                   pipeVars, callVars, bfVars, foldVars, overflow_checks>>

\* if curr_index >= input.len() { break } ... res.push(Token::EOF); Ok(res)
Break ==
    /\ scan_res.kind = "Scanning"
    /\ curr_index >= Len(scan_input)
    /\ scan_res' = Ok(scan_res.val \o <<EOF>>)
    /\ UNCHANGED <<scan_input, curr_index, coerceVars, parseVars, stateVars, literalVars,
                   addVars, listVars, pipeVars, callVars, bfVars, foldVars, overflow_checks>>

InitScan ==
    /\ \E n \in 0..MaxScanPieces : \E ps \in [1..n -> ScanPieces] : scan_input = Flatten(ps)
    /\ curr_index = 0 /\ scan_res = NotRun
    /\ overflow_checks \in BOOLEAN
    /\ CoerceIdle /\ ParseIdle /\ StateIdle /\ LiteralIdle /\ AddIdle /\ ListIdle /\ PipeIdle
    /\ CallIdle /\ BfIdle /\ FoldIdle

NextScan == Enter \/ Iterate \/ Break

\* The thread that runs tokenize is scheduled until the call ends.
SpecScan == InitScan /\ [][NextScan]_allvars /\ WF_allvars(NextScan)

\* C29: tokenize terminates on every input: each iteration of its loop moves
\* the cursor forward by at least one character, and the scan ends with a
\* token sequence or a lex error.
TokenizeTerminates ==
    /\ [][scan_res.kind = "Scanning" =>
              \/ scan_res'.kind = "Scanning" /\ curr_index' >= curr_index + 1
              \/ scan_res'.kind \in {"Ok", "Err"}]_allvars
    /\ <>(scan_res.kind \in {"Ok", "Err"})

=============================================================================
